---- MODULE Spec2Model ----
(***************************************************************************)
(* Block pipeline and reorganisation controller of the Omni layer          *)
(* (COmniValidationInterface), with the keyed stores it rolls back.        *)
(*                                                                         *)
(* The host node is a source of block-connected / block-disconnected /     *)
(* tip-updated notifications delivered one at a time on its callback       *)
(* thread.  The handlers are modelled at the granularity of the code's     *)
(* own loops: one step per BeginProcessTx, per ProcessTransaction, per     *)
(* EndProcessTx and per SyncToTip iteration.                               *)
(***************************************************************************)
EXTENDS Integers, Sequences, FiniteSets, TLC

VARIABLES
    blocks,              \* host block index: id -> [nHeight, pprev, vtx]
    hostTip,             \* tip of the host's active chain (a block id)
    shutdownRequested,   \* the host's ShutdownRequested() poll
    vChain,              \* CChainIndex::vChain of the core
    disconnectInitiated, \* COmniValidationInterface::disconnectInitiated
    txsToDelete,         \* COmniValidationInterface::txsToDelete
    inputsToRestore,     \* COmniValidationInterface::inputsToRestore
    pc,                  \* position of the callback thread
    cur,                 \* pindex of the BlockConnected being handled (0: none)
    sync,                \* locals of SyncToTip: [loaded, nBlock, nLast]
    txIdx,               \* nTxIdx / nTxNum of the block being processed
    proc,                \* block whose begin ran and whose end has not: [block, idx]
    mem,                 \* in-memory state: [bal, frozen, next_spid]
    persisted,           \* state checkpoints on disk: set of [block, bal, next_spid]
    db,                  \* keyed stores: [tx, txB, sendall, payment, cancel, trade,
                         \* match, tradeB, sto, stoB, sp, spTx, nft]
    overrideforcedshutdown, \* the -overrideforcedshutdown option
    abortNode,           \* message handed to AbortNode, "" while the node runs
    nftdb,               \* CMPNonFungibleTokensDB: key -> value
    totalTokens,         \* getTotalTokens of the tally: property -> amount
    feedb,               \* COmniFeeCache: key -> value
    feehistdb,           \* COmniFeeHistory: key -> value
    nBlockNow,           \* height of the block the stores are written for
    last,                \* the store operation applied last and its result
    spinfo,              \* CMPSPInfo: [db, next_spid, next_test_spid]
    entry,               \* a CMPSPInfo::Entry: issuer, delegate and their histories
    testdb,              \* a CDBBase written through Write: [T, keys], the key type
                         \* of its table and the keys stored (the values are empty)
    it,                  \* a CDBaseIterator on testdb: partialKey, valid, the position
                         \* pos of the leveldb iterator in the keys it was created on,
                         \* the key sought and the keys it has stood on while valid
    lockTest,            \* the threads, the mutex and the counter of the lock test
    params,              \* the chain selected by SelectParams
    threads              \* the threads of the node and the locks they hold

coreVars == <<blocks, hostTip, shutdownRequested, vChain, disconnectInitiated,
              txsToDelete, inputsToRestore, pc, cur, sync, txIdx, proc, mem,
              persisted, db>>

storeVars == <<overrideforcedshutdown, abortNode, nftdb, totalTokens, feedb,
               feehistdb, nBlockNow, last>>

\* the objects that are run on their own
unitVars == <<spinfo, entry, testdb, it, lockTest>>

\* the process: the selected chain and the threads with their locks
sysVars == <<params, threads>>

vars == <<coreVars, storeVars, unitVars, sysVars>>

hostVars == <<blocks, hostTip>>
ctlVars == <<disconnectInitiated, txsToDelete, inputsToRestore>>

----------------------------------------------------------------------------
(* Bounds of the model *)

\* block index entries the host ever creates, genesis included
MaxBlocks == 4
\* period of the checkpointing blocks (STORE_EVERY_N_BLOCK, scaled down)
StoreEveryNBlock == 2
\* tokens the sender holds in the clean state
SeedBalance == 1
\* std::numeric_limits<int64_t>::max(), scaled down
Int64Max == 3

----------------------------------------------------------------------------
(* Serialisation of key fields (dbbase.h) *)

Byte(x, i) == (x \div (256 ^ i)) % 256

\* BigEndianFormatter<4>: most significant byte first
BigEndian32(x) == <<Byte(x, 3), Byte(x, 2), Byte(x, 1), Byte(x, 0)>>

\* ser_writedata32: little endian, the default serialisation of a uint32_t
LittleEndian32(x) == <<Byte(x, 0), Byte(x, 1), Byte(x, 2), Byte(x, 3)>>

\* CustomUintInvFormatter<BigEndian32>: big endian of the bitwise complement
BigEndian32Inv(x) == [i \in 1..4 |-> 255 - BigEndian32(x)[i]]

\* leveldb::Slice::starts_with
StartsWith(key, partial) ==
    /\ Len(key) >= Len(partial)
    /\ \A i \in 1..Len(partial) : key[i] = partial[i]

\* the bytewise comparator of the store: a < b
KeyLess(a, b) ==
    \E i \in 1..Len(b) :
        /\ \A j \in 1..(i - 1) : j <= Len(a) /\ a[j] = b[j]
        /\ i > Len(a) \/ a[i] < b[i]

KeyLessEq(a, b) == a = b \/ KeyLess(a, b)

----------------------------------------------------------------------------
(* Host block index *)

NullBlock == 0
\* ConsensusParams().GENESIS_BLOCK of the modelled chain: its first block
GENESIS_BLOCK == 0

nHeight(b) == blocks[b].nHeight
pprev(b) == blocks[b].pprev

\* CBlockIndex::GetAncestor restricted to what the handlers walk: pprev links
RECURSIVE Ancestor(_, _)
Ancestor(b, h) ==
    IF b = NullBlock THEN NullBlock
    ELSE IF blocks[b].nHeight = h THEN b
    ELSE IF blocks[b].nHeight < h THEN NullBlock
    ELSE Ancestor(blocks[b].pprev, h)

IsAncestor(a, b) == a # NullBlock /\ b # NullBlock /\ Ancestor(b, nHeight(a)) = a

\* the blocks from genesis up to b, in height order
RECURSIVE PathTo(_)
PathTo(b) == IF b = NullBlock THEN <<>> ELSE Append(PathTo(blocks[b].pprev), b)

----------------------------------------------------------------------------
(* CChainIndex *)

\* CChainIndex::Height
Height(chain) == Len(chain) - 1

\* CChainIndex::operator[]
At(chain, h) == IF h < 0 \/ h > Height(chain) THEN NullBlock ELSE chain[h + 1]

\* CChainIndex::Tip
Tip(chain) == IF chain = <<>> THEN NullBlock ELSE chain[Len(chain)]

\* CChainIndex::Contains
Contains(chain, b) == At(chain, nHeight(b)) = b

\* the while loop of SetTip: walk pprev until a contained block is met
RECURSIVE SetTipWalk(_, _)
SetTipWalk(chain, b) ==
    IF b = NullBlock \/ Contains(chain, b) THEN chain
    ELSE SetTipWalk([chain EXCEPT ![nHeight(b) + 1] = b], pprev(b))

\* variant: the vector is made longer if need be, never shorter
SetTip_NoShrink(chain, b) ==
    LET n == IF Len(chain) > nHeight(b) + 1 THEN Len(chain) ELSE nHeight(b) + 1
        resized == [i \in 1..n |-> IF i <= Len(chain) THEN chain[i] ELSE NullBlock]
    IN SetTipWalk(resized, b)

\* CChainIndex::SetTip: resize to nHeight + 1 (new slots null), then walk
SetTip(chain, b) ==
    LET n == nHeight(b) + 1
        resized == [i \in 1..n |-> IF i <= Len(chain) THEN chain[i] ELSE NullBlock]
    IN SetTipWalk(resized, b)

----------------------------------------------------------------------------
(* Transactions carried by blocks *)

Sender == "Alice"
Receiver == "Bob"
Addrs == {Sender, Receiver}

\* message types
MSC_TYPE_SIMPLE_SEND == 0
MSC_TYPE_SEND_TO_OWNERS == 3
MSC_TYPE_SEND_ALL == 4
MSC_TYPE_METADEX_TRADE == 25
MSC_TYPE_METADEX_CANCEL_PRICE == 26
MSC_TYPE_CREATE_PROPERTY_MANUAL == 54
MSC_TYPE_ENABLE_FREEZING == 71
MSC_TYPE_DISABLE_FREEZING == 72
MSC_TYPE_FREEZE_PROPERTY_TOKENS == 185
MSC_TYPE_UNFREEZE_PROPERTY_TOKENS == 186

FreezeTypes == {MSC_TYPE_FREEZE_PROPERTY_TOKENS, MSC_TYPE_UNFREEZE_PROPERTY_TOKENS,
                MSC_TYPE_ENABLE_FREEZING, MSC_TYPE_DISABLE_FREEZING}

\* the payload-carrying transactions the host may include in a block; each
\* spends one output, named by vin
MetaTxs == { [txid |-> 1, type |-> MSC_TYPE_SIMPLE_SEND, vin |-> {11}],
             [txid |-> 2, type |-> MSC_TYPE_FREEZE_PROPERTY_TOKENS, vin |-> {12}],
             [txid |-> 3, type |-> MSC_TYPE_METADEX_TRADE, vin |-> {13}],
             [txid |-> 4, type |-> MSC_TYPE_SEND_TO_OWNERS, vin |-> {14}],
             [txid |-> 5, type |-> MSC_TYPE_CREATE_PROPERTY_MANUAL, vin |-> {15}] }

\* the coinbase of block b: no payload, no spent output
Coinbase(b) == [txid |-> Cardinality(MetaTxs) + b, vin |-> {}]

\* the transaction carries a protocol payload
HasPayload(tx) == "type" \in DOMAIN tx

\* CTxUndo::vprevout: the coin an input spent, as found in the undo data
UndoCoin(o) == [out |-> o]

TxIds(b) == {blocks[b].vtx[i].txid : i \in 1..Len(blocks[b].vtx)}

\* transaction ids confirmed in the chain ending at b
RECURSIVE ChainTxIds(_)
ChainTxIds(b) == IF b = NullBlock THEN {} ELSE TxIds(b) \cup ChainTxIds(blocks[b].pprev)

----------------------------------------------------------------------------
(* Key layouts of the stores *)

PrefixBlockTx == 98      \* 'b'
PrefixTx == 116          \* 't'
PrefixTradeMatch == 109  \* 'm'
PrefixTxAddress == 104   \* 'h'
PrefixUpdateProperty == 115 \* 's'

\* VarIntFormatter<DEFAULT> for values below 2^14 + 128
Varint(n) == IF n < 128 THEN <<n>> ELSE <<128 + ((n \div 128) - 1), n % 128>>

\* CBlockTxKey of the tx list: ser_writedata32be(~block), txid
KeyBlockTx(k) == <<PrefixBlockTx>> \o BigEndian32Inv(k.block) \o <<k.txid>>

\* CMPTxList::CTxKey: txid, block, valid, VARINT(type)
KeyTx(k) == <<PrefixTx, k.txid>> \o LittleEndian32(k.block)
              \o <<IF k.valid THEN 1 ELSE 0>> \o Varint(k.type)

\* PartialKey<CBlockTxKey>(uint32_t): the prefix and the default
\* serialisation of the integer handed in
PartialKeyBlockTx(blockHeight) == <<PrefixBlockTx>> \o LittleEndian32(blockHeight)

\* PartialKey<CTxKey>(txid)
PartialKeyTx(txid) == <<PrefixTx, txid>>

\* CTradeMatchKey: BigEndian32Inv(block), txid1, txid2
KeyTradeMatch(k) == <<PrefixTradeMatch>> \o BigEndian32Inv(k.block) \o <<k.txid1, k.txid2>>

\* CBlockTxKey of the STO list: BigEndian32Inv(block), chash
KeyStoBlock(k) == <<PrefixBlockTx>> \o BigEndian32Inv(k.block) \o <<k.chash>>

\* CTxAddressKey: hash, address, block, VARINT(propertyId)
KeyTxAddress(k) == <<PrefixTxAddress, k.hash, IF k.address = Sender THEN 1 ELSE 2>>
                     \o LittleEndian32(k.block)

\* CUpdatePropertyKey: Varint(propertyId), BigEndian32Inv(block)
KeyUpdateProperty(k) == <<PrefixUpdateProperty>> \o Varint(k.propertyId) \o BigEndian32Inv(k.block)

\* rows an iterator visits before the loop's break: every row from the first
\* of the prefix up to, and excluding, the first for which Keep fails
VisitedBeforeBreak(rows, Enc(_), Keep(_)) ==
    {r \in rows : \A r2 \in rows : KeyLessEq(Enc(r2), Enc(r)) => Keep(r2)}

\* the row an iterator stands on after Seek(partial): the least key that
\* starts with it; the empty set when the iterator is not valid
SeekFirst(rows, Enc(_), partial) ==
    {r \in rows : /\ StartsWith(Enc(r), partial)
                  /\ \A r2 \in rows : StartsWith(Enc(r2), partial) => KeyLessEq(Enc(r), Enc(r2))}

----------------------------------------------------------------------------
(* Writers of the stores *)

EmptyDb == [tx |-> {}, txB |-> {}, sendall |-> {}, payment |-> {}, cancel |-> {},
            trade |-> {}, match |-> {}, tradeB |-> {}, sto |-> {},
            stoB |-> {}, sp |-> {}, spTx |-> {}, nft |-> {}]

\* CMPTxList::recordTX: the block index row and the main record
recordTX(d, txid, fValid, nBlock, type) ==
    [d EXCEPT !.txB = @ \cup {[block |-> nBlock, txid |-> txid]},
              !.tx = @ \cup {[txid |-> txid, block |-> nBlock, valid |-> fValid, type |-> type]}]

\* CMPTradeList::recordNewTrade
recordNewTrade(d, txid, blockNum) ==
    [d EXCEPT !.trade = @ \cup {[txid |-> txid, block |-> blockNum]}]

\* CMPTradeList::recordMatchedTrade
recordMatchedTrade(d, txid1, txid2, block) ==
    [d EXCEPT !.match = @ \cup {[block |-> block, txid1 |-> txid1, txid2 |-> txid2]}]

\* CMPSTOList::recordSTOReceive: the block index row and the receiver row
recordSTOReceive(d, address, txid, nBlock) ==
    [d EXCEPT !.stoB = @ \cup {[block |-> nBlock, chash |-> txid]},
              !.sto = @ \cup {[hash |-> txid, address |-> address, block |-> nBlock]}]

\* the implied properties, and the first property id of the test ecosystem
\* (0x80000003: the high bit and 3, with property ids of one byte)
OMNI_PROPERTY_MSC == 1
OMNI_PROPERTY_TMSC == 2
TEST_ECO_PROPERTY_1 == 131

\* the row of an entry: the fields of its key and the fields of the entry
SPRow(propertyId, block, info) ==
    [f \in DOMAIN info \cup {"propertyId", "block"} |->
        IF f = "propertyId" THEN propertyId ELSE IF f = "block" THEN block ELSE info[f]]

\* variant: the rows of a property are never overwritten by updateSP
updateSP_KeepAll(d, propertyId, info, block) ==
    IF propertyId \in {OMNI_PROPERTY_MSC, OMNI_PROPERTY_TMSC} THEN d
    ELSE [d EXCEPT !.sp = @ \cup {SPRow(propertyId, block, info)}]

\* CMPSPInfo::updateSP: nothing is written for an implied property; else
\* one row per (propertyId, block), overwritten if present
updateSP(d, propertyId, info, block) ==
    IF propertyId \in {OMNI_PROPERTY_MSC, OMNI_PROPERTY_TMSC} THEN d
    ELSE [d EXCEPT !.sp = {r \in @ : ~(r.propertyId = propertyId /\ r.block = block)}
                          \cup {SPRow(propertyId, block, info)}]

\* CMPSPInfo::putSP for the main ecosystem: the id is next_spid, which the
\* caller advances; the entry and the creation-tx lookup row are written
putSP(d, next_spid, info, block) ==
    LET d1 == updateSP(d, next_spid, info, block)
    IN [d1 EXCEPT !.spTx = {l \in @ : l.txid # info.txid}
                           \cup {[txid |-> info.txid, propertyId |-> next_spid]}]

----------------------------------------------------------------------------
(* Readers and rollbacks of the stores *)

\* CMPTxList::CheckForFreezeTxs: scan the block index rows that start with
\* the partial key, look each transaction up, report a freeze-related type
CheckForFreezeTxs(d, blockHeight) ==
    \E k \in d.txB :
        /\ StartsWith(KeyBlockTx(k), PartialKeyBlockTx(blockHeight))
        /\ \E r \in SeekFirst(d.tx, KeyTx, PartialKeyTx(k.txid)) : r.type \in FreezeTypes

\* CMPTradeList::deleteTransactions: per txid, the new-trade rows of that
\* txid, then the matched-trade rows from the highest block down to block
TradeList_deleteTransactions(d, txs, block) ==
    LET newTrades == {r \in d.trade : r.txid \in txs}
        matched == IF txs = {} THEN {}
                   ELSE VisitedBeforeBreak(d.match, KeyTradeMatch, LAMBDA r : ~(r.block < block))
    IN [d EXCEPT !.trade = @ \ newTrades, !.match = @ \ matched]

\* CMPSTOList::deleteAboveBlock: the block index rows from the highest block
\* down to blockNum, and for each the receiver rows of the same hash and block
STOList_deleteAboveBlock(d, blockNum) ==
    LET keys == VisitedBeforeBreak(d.stoB, KeyStoBlock, LAMBDA k : ~(k.block < blockNum))
        rows == {r \in d.sto : \E k \in keys :
                     /\ StartsWith(KeyTxAddress(r), <<PrefixTxAddress, k.chash>>)
                     /\ r.block = k.block}
    IN [d EXCEPT !.stoB = @ \ keys, !.sto = @ \ rows]

\* CMPSPInfo::deleteSPAboveBlock: for every property id of the main
\* ecosystem below next_spid and of the test ecosystem below next_test_spid,
\* the rows from the newest down to block, and the lookup row of a property
\* whose creation row goes
deleteSPAboveBlock(d, lastPropertyId, lastTestPropertyId, block) ==
    LET ofProperty(pid) == {r \in d.sp :
            StartsWith(KeyUpdateProperty(r), <<PrefixUpdateProperty>> \o Varint(pid))}
        gone == UNION {VisitedBeforeBreak(ofProperty(pid), KeyUpdateProperty,
                                          LAMBDA r : ~(r.block < block))
                       : pid \in 1..(lastPropertyId - 1)
                                 \cup TEST_ECO_PROPERTY_1..(lastTestPropertyId - 1)}
    IN [d EXCEPT !.sp = @ \ gone,
                 !.spTx = {l \in @ : ~\E r \in gone :
                               r.creation_block = r.update_block /\ r.txid = l.txid}]

\* CMPTxList::deleteTransactions: the records of the given transactions and
\* the block index rows at or above block
TxList_deleteTransactions(d, txs, block) ==
    [d EXCEPT !.tx = {r \in @ : r.txid \notin txs},
              !.txB = {k \in @ : k.txid \notin txs /\ k.block < block}]

\* CMPNonFungibleTokensDB::RollBackAboveBlock: drain the per-block log
RollBackAboveBlock(d, block) == [d EXCEPT !.nft = {b \in @ : b < block}]

\* CMPSPInfo::getSP over all properties: the newest row of each property
Registry(d) ==
    {r \in d.sp : r \in SeekFirst(d.sp, KeyUpdateProperty,
                                  <<PrefixUpdateProperty>> \o Varint(r.propertyId))}

----------------------------------------------------------------------------
(* In-memory state, interpretation of a transaction, state checkpoints *)

\* first property id of the main ecosystem that putSP hands out
FirstSPID == 3

\* the state clear_all_state leaves in memory
CleanMem == [bal |-> [a \in Addrs |-> IF a = Sender THEN SeedBalance ELSE 0],
             frozen |-> {},
             next_spid |-> FirstSPID]

\* clear_all_state: the in-memory state and every store are emptied
clear_all_state == [mem |-> CleanMem, db |-> EmptyDb]

\* ProcessTransaction: parse and interpret one transaction of block nBlock on
\* the state S = [mem, db]; a transaction without payload changes nothing
ProcessTransaction(S, tx, nBlock) ==
    LET m == S.mem
        d == S.db
    IN IF ~HasPayload(tx) THEN S
       ELSE
       CASE tx.type = MSC_TYPE_SIMPLE_SEND ->
              LET ok == Sender \notin m.frozen /\ m.bal[Sender] >= 1
              IN [mem |-> IF ok THEN [m EXCEPT !.bal[Sender] = @ - 1,
                                               !.bal[Receiver] = @ + 1]
                          ELSE m,
                  db |-> recordTX(d, tx.txid, ok, nBlock, tx.type)]
         [] tx.type = MSC_TYPE_FREEZE_PROPERTY_TOKENS ->
              [mem |-> [m EXCEPT !.frozen = @ \cup {Sender}],
               db |-> recordTX(d, tx.txid, TRUE, nBlock, tx.type)]
         [] tx.type = MSC_TYPE_METADEX_TRADE ->
              [mem |-> m,
               db |-> recordTX(recordMatchedTrade(recordNewTrade(d, tx.txid, nBlock),
                                                  tx.txid, 0, nBlock),
                               tx.txid, TRUE, nBlock, tx.type)]
         [] tx.type = MSC_TYPE_SEND_TO_OWNERS ->
              [mem |-> m,
               db |-> recordTX(recordSTOReceive(d, Receiver, tx.txid, nBlock),
                               tx.txid, TRUE, nBlock, tx.type)]
         [] tx.type = MSC_TYPE_CREATE_PROPERTY_MANUAL ->
              [mem |-> [m EXCEPT !.next_spid = @ + 1],
               db |-> recordTX(
                         [putSP(d, m.next_spid,
                                [creation_block |-> nBlock, update_block |-> nBlock,
                                 txid |-> tx.txid], nBlock)
                            EXCEPT !.nft = @ \cup {nBlock}],
                         tx.txid, TRUE, nBlock, tx.type)]
         [] OTHER -> S

\* PersistInMemoryState: the checkpoint of block b replaces an older one of b
PersistInMemoryState(ps, m, b) ==
    {p \in ps : p.block # b} \cup {[block |-> b, bal |-> m.bal, next_spid |-> m.next_spid]}

\* LoadMostRelevantInMemoryState: the newest checkpoint of a block of the
\* core's chain is loaded into memory and its height returned, -1 if none
LoadMostRelevantInMemoryState(chain, ps, m) ==
    LET usable == {p \in ps : Contains(chain, p.block)}
    IN IF usable = {} THEN [best |-> -1, mem |-> m]
       ELSE LET p == CHOOSE q \in usable : \A r \in usable : nHeight(r.block) <= nHeight(q.block)
            IN [best |-> nHeight(p.block),
                mem |-> [m EXCEPT !.bal = p.bal, !.next_spid = p.next_spid]]

\* GetConsensusHash: what the hash is computed over
ConsensusHash(m, d) == [bal |-> m.bal, frozen |-> m.frozen, sp |-> Registry(d)]

\* the state after interpreting the transactions vtx[i..] of a block
RECURSIVE ApplyTxs(_, _, _, _)
ApplyTxs(S, vtx, i, nBlock) ==
    IF i > Len(vtx) THEN S
    ELSE ApplyTxs(ProcessTransaction(S, vtx[i], nBlock), vtx, i + 1, nBlock)

\* the state after connecting, once and in order, the blocks path[1..n]
RECURSIVE ConnectOnce(_, _)
ConnectOnce(path, n) ==
    IF n = 0 THEN clear_all_state
    ELSE ApplyTxs(ConnectOnce(path, n - 1), blocks[path[n]].vtx, 1, nHeight(path[n]))

----------------------------------------------------------------------------
(* BlockDisconnected and RewindDBsState *)

\* variant: the first loop skips the coinbase, as the undo loop does
BlockDisconnected_txs_SkipFirst(b, txs) ==
    txs \cup {blocks[b].vtx[i].txid : i \in 2..Len(blocks[b].vtx)}

\* BlockDisconnected, first loop: every transaction id of the block
BlockDisconnected_txs(b, txs) == txs \cup TxIds(b)

\* BlockDisconnected, undo loop: for every transaction but the coinbase, each
\* spent outpoint with the coin the undo data holds for it
BlockDisconnected_inputs(b, inputs) ==
    inputs \cup {<<o, UndoCoin(o)>> :
                   o \in UNION {blocks[b].vtx[i].vin : i \in 2..Len(blocks[b].vtx)}}

\* the blocks the while loop of RewindDBsState hands to BlockDisconnected:
\* pindex and its ancestors down to height block
RECURSIVE RewindWalk(_, _)
RewindWalk(pindex, block) ==
    IF pindex = NullBlock \/ nHeight(pindex) < block THEN {}
    ELSE {pindex} \cup RewindWalk(pprev(pindex), block)

NoProc == [block |-> NullBlock, idx |-> 0]
NoSync == [loaded |-> -1, nBlock |-> 0, nLast |-> -1]

\* variant: without a usable checkpoint the state is left as it is
RewindDBsState_NoClear(pindex, chain, m, d, ps, txs) ==
    LET nH == nHeight(pindex) - 1
        reorgContainsFreeze == CheckForFreezeTxs(d, nH)
        load == LoadMostRelevantInMemoryState(chain, ps, m)
    IN IF reorgContainsFreeze \/ load.best < 0 \/ load.best > nH
       THEN [mem |-> m, db |-> d, best_state_block |-> -1]
       ELSE LET block == load.best + 1
                all == txs \cup UNION {TxIds(b) : b \in RewindWalk(pindex, block)}
                d1 == STOList_deleteAboveBlock(d, block)
                d2 == deleteSPAboveBlock(d1, load.mem.next_spid, TEST_ECO_PROPERTY_1, block)
                d3 == RollBackAboveBlock(d2, block)
                d4 == TradeList_deleteTransactions(d3, all, block)
                d5 == TxList_deleteTransactions(d4, all, block)
            IN [mem |-> load.mem, db |-> d5, best_state_block |-> load.best]

\* RewindDBsState up to the clearing of the remembered sets: the decision
\* between a full rescan and a checkpoint, and the rollback of the stores
RewindDBsState(pindex, chain, m, d, ps, txs) ==
    LET nH == nHeight(pindex) - 1
        reorgContainsFreeze == CheckForFreezeTxs(d, nH)
        load == LoadMostRelevantInMemoryState(chain, ps, m)
    IN IF reorgContainsFreeze \/ load.best < 0 \/ load.best > nH
       THEN [mem |-> clear_all_state.mem, db |-> clear_all_state.db,
             best_state_block |-> -1]
       ELSE LET block == load.best + 1
                all == txs \cup UNION {TxIds(b) : b \in RewindWalk(pindex, block)}
                d1 == STOList_deleteAboveBlock(d, block)
                d2 == deleteSPAboveBlock(d1, load.mem.next_spid, TEST_ECO_PROPERTY_1, block)
                d3 == RollBackAboveBlock(d2, block)
                d4 == TradeList_deleteTransactions(d3, all, block)
                d5 == TxList_deleteTransactions(d4, all, block)
            IN [mem |-> load.mem, db |-> d5, best_state_block |-> load.best]

\* variant: the scan starts at the loaded block itself
SyncToTip_FromLoaded(chain, loadedBlock) ==
    [loaded |-> loadedBlock, nBlock |-> loadedBlock, nLast |-> Height(chain)]

\* SyncToTip, before its loop: the range [loadedBlock + 1, tip] of the chain
SyncToTip(chain, loadedBlock) ==
    [loaded |-> loadedBlock, nBlock |-> loadedBlock + 1, nLast |-> Height(chain)]

\* IsPersistenceEnabled: the height is a checkpointing block; the modelled
\* chain starts one block after a checkpointing height
IsPersistenceEnabled(blockHeight) == (blockHeight + 1) % StoreEveryNBlock = 0

\* variant: the chain index is left as the disconnects found it
BeginProcessTx_SetTip_Keep(chain, pindex) == chain

\* BeginProcessTx with a disconnect pending: chain.SetTip(pindex->pprev)
BeginProcessTx_SetTip(chain, pindex) == SetTip(chain, pprev(pindex))

\* EndProcessTx: the checkpoint is written when the height has reached
\* GENESIS_BLOCK and persistence is enabled for it
EndProcessTx(ps, m, b) ==
    IF nHeight(b) >= GENESIS_BLOCK /\ IsPersistenceEnabled(nHeight(b))
    THEN PersistInMemoryState(ps, m, b)
    ELSE ps

----------------------------------------------------------------------------
(* The initial state: nothing connected, memory and stores clean *)

\* a LevelDB store without rows
EmptyStore == [k \in {} |-> ""]

\* no store operation applied yet
NoOp == [op |-> "none", ok |-> TRUE]

\* the pipeline and the reorganisation controller after construction
InitCore ==
    /\ blocks = <<>>
    /\ hostTip = NullBlock
    /\ shutdownRequested = FALSE
    /\ vChain = <<>>
    /\ disconnectInitiated = FALSE
    /\ txsToDelete = {}
    /\ inputsToRestore = {}
    /\ pc = "idle"
    /\ cur = NullBlock
    /\ sync = NoSync
    /\ txIdx = 0
    /\ proc = NoProc
    /\ mem = CleanMem
    /\ persisted = {}
    /\ db = EmptyDb

\* the token and fee stores after construction: opened empty, option unset
InitStores ==
    /\ overrideforcedshutdown = FALSE
    /\ abortNode = ""
    /\ nftdb = EmptyStore
    /\ totalTokens = <<>>
    /\ feedb = EmptyStore
    /\ feehistdb = EmptyStore
    /\ nBlockNow = 0
    /\ last = NoOp

\* the objects that are run on their own, before any of them is used
\* the position of a leveldb iterator that is not on a key
End == <<>>
NoIterator == [partialKey |-> <<>>, pos |-> End, valid |-> FALSE, keys |-> {},
               how |-> "none", start |-> <<>>, visited |-> <<>>]
NoTestDB == [T |-> "CTestAscOrder", keys |-> {}]

\* the lock test: nThreadsNum threads of nIterations rounds each
nThreadsNum == 2
nIterations == 2
Threads == 1..nThreadsNum

\* the lock test before its first thread: number::n, locker::cs_number (the
\* owner, 0 for none, and how often the owner holds it), the threads
\* with their position, round i and local n, and the order of the rounds
NoLockTest ==
    [n |-> 0, cs_number |-> [owner |-> 0, depth |-> 0],
     thread |-> [t \in Threads |-> [pc |-> "new", i |-> 0, n |-> 0]],
     rounds |-> <<>>]
\* no thread of the node runs and no lock is held
NoThreads == <<>>

\* the process after start-up on the main chain
InitSys ==
    /\ params = "main"
    /\ threads = NoThreads

InitUnits ==
    /\ spinfo = [db |-> [sp |-> {}, spTx |-> {}], next_spid |-> FirstSPID,
                 next_test_spid |-> TEST_ECO_PROPERTY_1]
    /\ entry = [issuer |-> "", historicalIssuers |-> <<>>,
                delegate |-> "", historicalDelegates |-> <<>>]
    /\ testdb = NoTestDB
    /\ it = NoIterator
    /\ lockTest = NoLockTest
    /\ InitSys

Init == InitCore /\ InitStores /\ InitUnits

----------------------------------------------------------------------------
(* Notifications of the host *)

\* the contents the host may give a new block on top of tip
Tx(i) == CHOOSE t \in MetaTxs : t.txid = i
Payloads == {<<>>, <<Tx(1)>>, <<Tx(2)>>, <<Tx(5), Tx(3), Tx(4)>>}
BlockContents(id, tip) ==
    IF tip = NullBlock THEN {<<Coinbase(id)>>}
    ELSE {<<Coinbase(id)>> \o m :
            m \in {n \in Payloads : \A i \in 1..Len(n) : n[i].txid \notin ChainTxIds(tip)}}

\* the host connects a new block on its tip and signals BlockConnected
HostConnectsNewBlock ==
    /\ pc = "idle" /\ ~shutdownRequested
    /\ Len(blocks) < MaxBlocks
    /\ \E vtx \in BlockContents(Len(blocks) + 1, hostTip) :
          blocks' = Append(blocks, [nHeight |-> IF hostTip = NullBlock THEN 0
                                                ELSE nHeight(hostTip) + 1,
                                    pprev |-> hostTip, vtx |-> vtx])
    /\ hostTip' = Len(blocks) + 1
    /\ cur' = Len(blocks) + 1
    /\ pc' = "begin"
    /\ UNCHANGED <<shutdownRequested, vChain, ctlVars, sync, txIdx, proc, mem,
                   persisted, db, sysVars>>
    /\ UNCHANGED <<storeVars, unitVars, sysVars>>

\* the host connects again a block it had disconnected
HostReconnectsBlock ==
    /\ pc = "idle" /\ ~shutdownRequested
    /\ \E b \in 1..Len(blocks) :
          /\ hostTip # NullBlock
          /\ pprev(b) = hostTip
          /\ hostTip' = b
          /\ cur' = b
    /\ pc' = "begin"
    /\ UNCHANGED <<blocks, shutdownRequested, vChain, ctlVars, sync, txIdx, proc,
                   mem, persisted, db, sysVars>>
    /\ UNCHANGED <<storeVars, unitVars, sysVars>>

\* BlockDisconnected for the host's tip
BlockDisconnected ==
    /\ pc = "idle" /\ ~shutdownRequested
    /\ hostTip # NullBlock
    /\ pprev(hostTip) # NullBlock
    /\ txsToDelete' = BlockDisconnected_txs(hostTip, txsToDelete)
    /\ inputsToRestore' = BlockDisconnected_inputs(hostTip, inputsToRestore)
    /\ disconnectInitiated' = TRUE
    /\ hostTip' = pprev(hostTip)
    /\ UNCHANGED <<blocks, shutdownRequested, vChain, pc, cur, sync, txIdx, proc,
                   mem, persisted, db, sysVars>>
    /\ UNCHANGED <<storeVars, unitVars, sysVars>>

\* UpdatedBlockTip for the host's tip
UpdatedBlockTip ==
    /\ pc = "idle" /\ ~shutdownRequested
    /\ Tip(vChain) # hostTip
    /\ vChain' = SetTip(vChain, hostTip)
    /\ UNCHANGED <<hostVars, shutdownRequested, ctlVars, pc, cur, sync, txIdx, proc,
                   mem, persisted, db, sysVars>>
    /\ UNCHANGED <<storeVars, unitVars, sysVars>>

\* the host asks for shutdown; it delivers no further notification
RequestShutdown ==
    /\ ~shutdownRequested
    /\ shutdownRequested' = TRUE
    /\ UNCHANGED <<hostVars, vChain, ctlVars, pc, cur, sync, txIdx, proc, mem,
                   persisted, db, sysVars>>
    /\ UNCHANGED <<storeVars, unitVars, sysVars>>

----------------------------------------------------------------------------
(* BlockConnected, step by step on the notification thread *)

\* variant: RewindDBsState leaves the remembered sets as they are
BeginProcessTx_Rewind_KeepSets ==
    /\ pc = "begin" /\ disconnectInitiated
    /\ LET chain1 == BeginProcessTx_SetTip(vChain, cur)
           r == RewindDBsState(cur, chain1, mem, db, persisted, txsToDelete)
           s == SyncToTip(chain1, r.best_state_block)
       IN /\ vChain' = chain1
          /\ mem' = r.mem
          /\ db' = r.db
          /\ sync' = s
          /\ pc' = IF At(chain1, s.nBlock) = NullBlock \/ Tip(chain1) = NullBlock
                   THEN "begin2" ELSE "sync_loop"
    /\ disconnectInitiated' = FALSE
    /\ UNCHANGED <<txsToDelete, inputsToRestore>>
    /\ UNCHANGED <<hostVars, shutdownRequested, cur, txIdx, proc, persisted, sysVars>>
    /\ UNCHANGED <<storeVars, unitVars, sysVars>>

\* BeginProcessTx with a disconnect pending: the chain index is set to the
\* parent of the connecting block, the flag is cleared, RewindDBsState rolls
\* the state back, clears the remembered sets and enters SyncToTip
BeginProcessTx_Rewind ==
    /\ pc = "begin" /\ disconnectInitiated
    /\ LET chain1 == BeginProcessTx_SetTip(vChain, cur)
           r == RewindDBsState(cur, chain1, mem, db, persisted, txsToDelete)
           s == SyncToTip(chain1, r.best_state_block)
       IN /\ vChain' = chain1
          /\ mem' = r.mem
          /\ db' = r.db
          /\ sync' = s
          /\ pc' = IF At(chain1, s.nBlock) = NullBlock \/ Tip(chain1) = NullBlock
                   THEN "begin2" ELSE "sync_loop"
    /\ disconnectInitiated' = FALSE
    /\ txsToDelete' = {}
    /\ inputsToRestore' = {}
    /\ UNCHANGED <<hostVars, shutdownRequested, cur, txIdx, proc, persisted, sysVars>>
    /\ UNCHANGED <<storeVars, unitVars, sysVars>>

\* SyncToTip leaves its loop: range exhausted, shutdown requested, or no block
SyncToTip_Exit ==
    /\ pc = "sync_loop"
    /\ \/ sync.nBlock > sync.nLast
       \/ shutdownRequested
       \/ At(vChain, sync.nBlock) = NullBlock
    /\ pc' = "begin2"
    /\ UNCHANGED <<hostVars, shutdownRequested, vChain, ctlVars, cur, sync, txIdx,
                   proc, mem, persisted, db, sysVars>>
    /\ UNCHANGED <<storeVars, unitVars, sysVars>>

\* SyncToTip, one iteration: BeginProcessTx for the next block of the range
SyncToTip_Begin ==
    /\ pc = "sync_loop"
    /\ sync.nBlock <= sync.nLast
    /\ ~shutdownRequested
    /\ At(vChain, sync.nBlock) # NullBlock
    /\ ~disconnectInitiated
    /\ proc' = [block |-> At(vChain, sync.nBlock), idx |-> 0]
    /\ txIdx' = 1
    /\ pc' = "sync_tx"
    /\ UNCHANGED <<hostVars, shutdownRequested, vChain, ctlVars, cur, sync, mem,
                   persisted, db, sysVars>>
    /\ UNCHANGED <<storeVars, unitVars, sysVars>>

\* variant: the transaction loop polls for shutdown and leaves the scan
SyncToTip_Tx_Polling ==
    /\ pc = "sync_tx"
    /\ txIdx <= Len(blocks[proc.block].vtx)
    /\ IF shutdownRequested
       THEN /\ pc' = "begin2"
            /\ UNCHANGED <<mem, db, proc, txIdx, sysVars>>
       ELSE /\ LET S == ProcessTransaction([mem |-> mem, db |-> db],
                                           blocks[proc.block].vtx[txIdx],
                                           nHeight(proc.block))
               IN mem' = S.mem /\ db' = S.db
            /\ proc' = [proc EXCEPT !.idx = txIdx]
            /\ txIdx' = txIdx + 1
            /\ pc' = pc
    /\ UNCHANGED <<hostVars, shutdownRequested, vChain, ctlVars, cur, sync, persisted, sysVars>>
    /\ UNCHANGED <<storeVars, unitVars, sysVars>>

\* SyncToTip, ProcessTransaction for the next transaction of the block
SyncToTip_Tx ==
    /\ pc = "sync_tx"
    /\ txIdx <= Len(blocks[proc.block].vtx)
    /\ LET S == ProcessTransaction([mem |-> mem, db |-> db],
                                   blocks[proc.block].vtx[txIdx], nHeight(proc.block))
       IN mem' = S.mem /\ db' = S.db
    /\ proc' = [proc EXCEPT !.idx = txIdx]
    /\ txIdx' = txIdx + 1
    /\ UNCHANGED <<hostVars, shutdownRequested, vChain, ctlVars, pc, cur, sync,
                   persisted, sysVars>>
    /\ UNCHANGED <<storeVars, unitVars, sysVars>>

\* SyncToTip, EndProcessTx of the block and the step to the next height
SyncToTip_End ==
    /\ pc = "sync_tx"
    /\ txIdx > Len(blocks[proc.block].vtx)
    /\ persisted' = EndProcessTx(persisted, mem, proc.block)
    /\ sync' = [sync EXCEPT !.nBlock = @ + 1]
    /\ proc' = NoProc
    /\ txIdx' = 0
    /\ pc' = "sync_loop"
    /\ UNCHANGED <<hostVars, shutdownRequested, vChain, ctlVars, cur, mem, db, sysVars>>
    /\ UNCHANGED <<storeVars, unitVars, sysVars>>

\* variant: the pending disconnect is not looked at
BeginProcessTx_IgnoringFlag ==
    /\ pc \in {"begin", "begin2"}
    /\ vChain' = SetTip(vChain, cur)
    /\ proc' = [block |-> cur, idx |-> 0]
    /\ txIdx' = 1
    /\ pc' = "tx"
    /\ UNCHANGED <<hostVars, shutdownRequested, ctlVars, cur, sync, mem, persisted, db, sysVars>>
    /\ UNCHANGED <<storeVars, unitVars, sysVars>>

\* BeginProcessTx without a pending disconnect (or after the rewind), then
\* chain.SetTip for the connecting block
BeginProcessTx ==
    /\ \/ pc = "begin" /\ ~disconnectInitiated
       \/ pc = "begin2"
    /\ vChain' = SetTip(vChain, cur)
    /\ proc' = [block |-> cur, idx |-> 0]
    /\ txIdx' = 1
    /\ pc' = "tx"
    /\ UNCHANGED <<hostVars, shutdownRequested, ctlVars, cur, sync, mem, persisted, db, sysVars>>
    /\ UNCHANGED <<storeVars, unitVars, sysVars>>

\* BlockConnected, ProcessTransaction for the next transaction of the block
BlockConnected_Tx ==
    /\ pc = "tx"
    /\ txIdx <= Len(blocks[cur].vtx)
    /\ LET S == ProcessTransaction([mem |-> mem, db |-> db],
                                   blocks[cur].vtx[txIdx], nHeight(cur))
       IN mem' = S.mem /\ db' = S.db
    /\ proc' = [proc EXCEPT !.idx = txIdx]
    /\ txIdx' = txIdx + 1
    /\ UNCHANGED <<hostVars, shutdownRequested, vChain, ctlVars, pc, cur, sync,
                   persisted, sysVars>>
    /\ UNCHANGED <<storeVars, unitVars, sysVars>>

\* BlockConnected, EndProcessTx of the connecting block; the callback returns
BlockConnected_End ==
    /\ pc = "tx"
    /\ txIdx > Len(blocks[cur].vtx)
    /\ persisted' = EndProcessTx(persisted, mem, cur)
    /\ proc' = NoProc
    /\ txIdx' = 0
    /\ cur' = NullBlock
    /\ sync' = NoSync
    /\ pc' = "idle"
    /\ UNCHANGED <<hostVars, shutdownRequested, vChain, ctlVars, mem, db, sysVars>>
    /\ UNCHANGED <<storeVars, unitVars, sysVars>>

Next ==
    \/ HostConnectsNewBlock
    \/ HostReconnectsBlock
    \/ BlockDisconnected
    \/ UpdatedBlockTip
    \/ RequestShutdown
    \/ BeginProcessTx_Rewind
    \/ SyncToTip_Exit
    \/ SyncToTip_Begin
    \/ SyncToTip_Tx
    \/ SyncToTip_End
    \/ BeginProcessTx
    \/ BlockConnected_Tx
    \/ BlockConnected_End

Spec == Init /\ [][Next]_vars

TypeOK ==
    /\ pc \in {"idle", "begin", "sync_loop", "sync_tx", "begin2", "tx"}
    /\ hostTip \in 0..Len(blocks)
    /\ cur \in 0..Len(blocks)

----------------------------------------------------------------------------
(* Vocabulary of the properties *)

\* the step in which BeginProcessTx runs the rewind: no other step clears
\* the pending-disconnect flag
RewindStep == disconnectInitiated /\ ~disconnectInitiated'

\* a freezing-related transaction among those of the disconnected blocks
FreezeInRange == \E t \in MetaTxs : t.txid \in txsToDelete /\ t.type \in FreezeTypes

\* the persisted checkpoints of the blocks below b on b's chain
CheckpointsBelow(b) == {p \in persisted : p.block # b /\ IsAncestor(p.block, b)}

\* the most recent of them
NewestCheckpointBelow(b) ==
    CHOOSE p \in CheckpointsBelow(b) :
        \A q \in CheckpointsBelow(b) : nHeight(q.block) <= nHeight(p.block)

\* everything dropped and the scan restarted at the first block of the chain
FullRescan ==
    /\ mem' = CleanMem
    /\ db' = EmptyDb
    /\ sync'.loaded = -1
    /\ sync'.nBlock = 0
    /\ pc' = "sync_loop"

\* no row of block height above c in the transaction list, the trade list,
\* the send-to-owners list, the property history or the token rollback log
NoEntriesAbove(d, c) ==
    /\ \A r \in d.tx \cup d.txB \cup d.trade \cup d.match \cup d.sto \cup d.stoB \cup d.sp :
          r.block <= c
    /\ \A b \in d.nft : b <= c

\* the state reached by connecting the host's active chain once, in order
ConnectedOnce == ConnectOnce(PathTo(hostTip), Len(PathTo(hostTip)))

----------------------------------------------------------------------------
(* Properties of the reorganisation controller and the block pipeline *)

\* C1: when blocks connected on a chain prefix have been disconnected and the
\* same blocks connected again, the consensus hash equals the one of
\* connecting them once.  The host's block index holds no block off its
\* active chain exactly when every disconnected block has been reconnected.
C1_ReorgIdempotence ==
    ( /\ pc = "idle" /\ ~disconnectInitiated /\ ~shutdownRequested
      /\ hostTip # NullBlock
      /\ \A b \in 1..Len(blocks) : IsAncestor(b, hostTip) )
    => ConsensusHash(mem, db) = ConsensusHash(ConnectedOnce.mem, ConnectedOnce.db)

\* C2: a rewind whose disconnected blocks carried a freezing-related
\* transaction drops all state and restarts the scan at the first block.
C2_FreezeForcesRescan == [][RewindStep /\ FreezeInRange => FullRescan]_vars

C5_NoEntriesAboveCheckpoint ==
    [][RewindStep /\ sync'.loaded >= 0 => NoEntriesAbove(db', sync'.loaded)]_vars

\* C6: BlockDisconnected for the block b sets the pending-disconnect flag
\* and remembers every transaction id of b and, for every input of its
\* transactions, the spent output with its coin.
C6_DisconnectRemembers ==
    [][hostTip # NullBlock /\ hostTip' = pprev(hostTip)
       => /\ disconnectInitiated'
          /\ TxIds(hostTip) \subseteq txsToDelete'
          /\ txsToDelete \subseteq txsToDelete'
          /\ \A i \in 1..Len(blocks[hostTip].vtx) : \A o \in blocks[hostTip].vtx[i].vin :
                <<o, UndoCoin(o)>> \in inputsToRestore']_vars

\* a block with a payload transaction has been disconnected
C6_Witness ==
    /\ pc = "idle" /\ disconnectInitiated
    /\ inputsToRestore # {}
    /\ Cardinality(txsToDelete) >= 2

\* C7: while transactions of the connecting block are interpreted no
\* disconnect is pending: the rewind has run, the remembered sets are empty
\* and the chain index has the connecting block as its tip.
C7_RewindBeforeTransactions ==
    pc = "tx" => /\ ~disconnectInitiated
                 /\ txsToDelete = {} /\ inputsToRestore = {}
                 /\ Tip(vChain) = cur
                 /\ proc.block = cur

\* a transaction of the connecting block is interpreted after a rewind
C7_Witness == pc = "tx" /\ sync # NoSync /\ proc.idx >= 1

\* C8: a block's transitions begin only when no other block is open, its
\* transactions are interpreted in block order, and it is closed only after
\* its last transaction.
C8_BlockTransitionsSequential ==
    [][/\ proc'.block # proc.block
          => \/ proc.block = NullBlock /\ proc'.idx = 0
             \/ proc'.block = NullBlock /\ proc.idx = Len(blocks[proc.block].vtx)
       /\ proc'.block = proc.block /\ proc'.idx # proc.idx
          => proc'.idx = proc.idx + 1]_vars

\* a replayed block with a payload has had its last transaction interpreted
C8_Witness ==
    /\ pc = "sync_tx" /\ proc.block # NullBlock
    /\ proc.idx >= 2
    /\ proc.idx = Len(blocks[proc.block].vtx)

\* C9: from a disconnect to the end of the rewind and replay it triggers, the
\* only blocks processed are blocks of the chain of the connecting block.
C9_NoForeignBlockDuringReorg ==
    /\ disconnectInitiated => proc = NoProc /\ pc \in {"idle", "begin"}
    /\ pc \in {"sync_loop", "sync_tx"}
          => /\ ~disconnectInitiated
             /\ proc.block # NullBlock
                   => IsAncestor(proc.block, cur) /\ proc.block # cur

\* the replay interprets a block while a block of another branch exists
C9_Witness ==
    /\ pc = "sync_tx" /\ proc.idx >= 1
    /\ \E b \in 1..Len(blocks) : ~IsAncestor(b, cur)

\* C10: once shutdown is requested no further transaction is interpreted
\* and no state is persisted.
C10_ShutdownStopsAndDiscards ==
    [][shutdownRequested => mem' = mem /\ db' = db /\ persisted' = persisted]_vars

----------------------------------------------------------------------------
(* The non-fungible token store (nftdb.cpp) *)

\* put and delete of a LevelDB store
Put(store, key, value) ==
    [k \in DOMAIN store \cup {key} |-> IF k = key THEN value ELSE store[k]]
Delete(store, key) == [k \in DOMAIN store \ {key} |-> store[k]]

\* the least key of a set of keys in the order of the store
FirstKey(keys) == CHOOSE k \in keys : \A k2 \in keys : KeyLessEq(k, k2)

\* the kinds of rows, NonFungibleStorage
NonFungibleStorage == {"RangeIndex", "GrantData", "IssuerData", "HolderData"}

\* the number a kind is printed as in a key
StorageType(type) ==
    CASE type = "RangeIndex" -> 1
      [] type = "GrantData" -> 2
      [] type = "IssuerData" -> 3
      [] type = "HolderData" -> 4
      [] OTHER -> 0

\* createNFTKey: "%010d_%u_%020d-%020d".  The fields are printed at a fixed
\* width with leading zeros, so the key is kept as the sequence of its
\* fields: the bytewise order of the strings is the order of these sequences
createNFTKey(propertyId, type, tokenIdStart, tokenIdEnd) ==
    <<propertyId, StorageType(type), tokenIdStart, tokenIdEnd>>

\* the kind a number of a key stands for
StorageTypeInv(n) ==
    CASE n = 1 -> "RangeIndex"
      [] n = 2 -> "GrantData"
      [] n = 3 -> "IssuerData"
      [] n = 4 -> "HolderData"
      [] OTHER -> "None"

\* parseNFTKey: the fields of a key, the kind as a NonFungibleStorage
parseNFTKey(key) ==
    [propertyId |-> key[1], type |-> StorageTypeInv(key[2]),
     start |-> key[3], end |-> key[4]]

\* the keys a getter's loop visits: from Seek(createNFTKey(propertyId, type))
\* onwards, up to the first key of another property or kind
NFTVisited(store, propertyId, type) ==
    LET first == createNFTKey(propertyId, type, 0, 0)
        from == {k \in DOMAIN store : KeyLessEq(first, k)}
        other == {k \in from : LET nkey == parseNFTKey(k)
                               IN nkey.propertyId # propertyId \/ nkey.type # type}
    IN {k \in from \ other : \A k2 \in other : KeyLess(k, k2)}

\* the visited ranges that hold the tokens rangeStart..rangeEnd
NFTHolding(store, propertyId, type, rangeStart, rangeEnd) ==
    {k \in NFTVisited(store, propertyId, type) :
        LET nkey == parseNFTKey(k)
        IN rangeStart >= nkey.start /\ rangeEnd <= nkey.end}

\* GetRange: the first visited range that holds tokenId, <<0, 0>> if none
GetRange(store, propertyId, tokenId, type) ==
    LET hit == NFTHolding(store, propertyId, type, tokenId, tokenId)
        key == parseNFTKey(FirstKey(hit))
    IN IF hit = {} THEN <<0, 0>> ELSE <<key.start, key.end>>

\* GetNonFungibleTokenValueInRange: the owner of the first visited range
\* that holds rangeStart..rangeEnd, "" if none
GetNonFungibleTokenValueInRange(store, propertyId, rangeStart, rangeEnd) ==
    LET hit == NFTHolding(store, propertyId, "RangeIndex", rangeStart, rangeEnd)
    IN IF hit = {} THEN "" ELSE store[FirstKey(hit)]

\* GetNonFungibleTokenValue: the value of the first visited range that
\* holds tokenId, "" if none
GetNonFungibleTokenValue(store, propertyId, tokenId, type) ==
    LET hit == NFTHolding(store, propertyId, type, tokenId, tokenId)
    IN IF hit = {} THEN "" ELSE store[FirstKey(hit)]

\* the greatest of a non-empty set of numbers
MaxOf(S) == CHOOSE x \in S : \A y \in S : y <= x

\* variant: the greatest start of the RangeIndex rows
GetHighestRangeEnd_Start(store, propertyId) ==
    MaxOf({0} \cup {parseNFTKey(k).start : k \in NFTVisited(store, propertyId, "RangeIndex")})

\* GetHighestRangeEnd: the greatest start or end of the RangeIndex rows
GetHighestRangeEnd(store, propertyId) ==
    MaxOf({0} \cup {parseNFTKey(k).start : k \in NFTVisited(store, propertyId, "RangeIndex")}
              \cup {parseNFTKey(k).end : k \in NFTVisited(store, propertyId, "RangeIndex")})

\* variant: the row is left in the store
DeleteRange_Keep(store, propertyId, tokenIdStart, tokenIdEnd, type) ==
    store

DeleteRange(store, propertyId, tokenIdStart, tokenIdEnd, type) ==
    Delete(store, createNFTKey(propertyId, type, tokenIdStart, tokenIdEnd))

AddRange(store, propertyId, tokenIdStart, tokenIdEnd, info, type) ==
    Put(store, createNFTKey(propertyId, type, tokenIdStart, tokenIdEnd), info)

\* variant: the owner of the start token is asked for, not of the range
MoveNonFungibleTokens_OwnsStart(store, propertyId, tokenIdStart, tokenIdEnd, from, to) ==
    GetNonFungibleTokenValue(store, propertyId, tokenIdStart, "RangeIndex") = from

\* MoveNonFungibleTokens, the check: 'from' owns a range that holds the
\* whole of tokenIdStart..tokenIdEnd
MoveNonFungibleTokens_Owns(store, propertyId, tokenIdStart, tokenIdEnd, from, to) ==
    GetNonFungibleTokenValueInRange(store, propertyId, tokenIdStart, tokenIdEnd) = from

\* the one element of a set of one element
Only(S) == CHOOSE x \in S : TRUE

\* AddRange under a condition
AddRangeIf(cond, store, propertyId, tokenIdStart, tokenIdEnd, info, type) ==
    IF cond THEN AddRange(store, propertyId, tokenIdStart, tokenIdEnd, info, type) ELSE store

\* DeleteRange under a condition
DeleteRangeIf(cond, store, propertyId, range, type) ==
    IF cond THEN DeleteRange(store, propertyId, range[1], range[2], type) ELSE store

\* variant: what the sender's range holds after the moved tokens is not
\* added again
MoveNonFungibleTokens_From_NoRight(store, propertyId, tokenIdStart, tokenIdEnd, from, senderTokenRange) ==
    AddRangeIf(senderTokenRange[1] < tokenIdStart,
               DeleteRange(store, propertyId, senderTokenRange[1],
                           senderTokenRange[2], "RangeIndex"),
               propertyId, senderTokenRange[1], tokenIdStart - 1, from, "RangeIndex")

\* MoveNonFungibleTokens, "adjust 'from' ranges": the sender's range is
\* deleted and what it holds before and after the moved tokens is added
MoveNonFungibleTokens_From(store, propertyId, tokenIdStart, tokenIdEnd, from, senderTokenRange) ==
    AddRangeIf(senderTokenRange[2] > tokenIdEnd,
               AddRangeIf(senderTokenRange[1] < tokenIdStart,
                          DeleteRange(store, propertyId, senderTokenRange[1],
                                      senderTokenRange[2], "RangeIndex"),
                          propertyId, senderTokenRange[1], tokenIdStart - 1, from, "RangeIndex"),
               propertyId, tokenIdEnd + 1, senderTokenRange[2], from, "RangeIndex")

\* variant: the moved range is never merged with the ranges next to it
MoveNonFungibleTokens_NoMerge(store, propertyId, tokenIdStart, tokenIdEnd, from, to) ==
    IF ~MoveNonFungibleTokens_Owns(store, propertyId, tokenIdStart, tokenIdEnd, from, to)
    THEN [ok |-> FALSE, store |-> store]
    ELSE [ok |-> TRUE,
          store |-> Only({AddRange(MoveNonFungibleTokens_From(store, propertyId, tokenIdStart,
                                                              tokenIdEnd, from, r),
                                   propertyId, tokenIdStart, tokenIdEnd, to, "RangeIndex") :
                            r \in {GetRange(store, propertyId, tokenIdStart, "RangeIndex")}})]

\* MoveNonFungibleTokens: the sender's range is split around the moved
\* tokens, which are merged with the receiver's ranges next to them.  The
\* steps of the function follow each other as s1 .. s5, each the state of
\* the call after one more step: s1 after the sender's range is looked up
\* and the neighbours' owners are read, s2 after the sender's ranges are
\* adjusted, s3 and s4 after the receiver's range before and after the
\* moved tokens is looked up and deleted, s5 after the new range is added
MoveNonFungibleTokens(store, propertyId, tokenIdStart, tokenIdEnd, from, to) ==
    LET s1 == {[senderTokenRange |-> GetRange(store, propertyId, tokenIdStart, "RangeIndex"),
                bToAdjacentRangeBefore |->
                    GetNonFungibleTokenValue(store, propertyId, tokenIdStart - 1, "RangeIndex") = to,
                bToAdjacentRangeAfter |->
                    GetNonFungibleTokenValue(store, propertyId, tokenIdEnd + 1, "RangeIndex") = to]}
        s2 == {[bToAdjacentRangeBefore |-> x.bToAdjacentRangeBefore,
                bToAdjacentRangeAfter |-> x.bToAdjacentRangeAfter,
                db |-> MoveNonFungibleTokens_From(store, propertyId, tokenIdStart, tokenIdEnd,
                                                  from, x.senderTokenRange)] : x \in s1}
        s3 == {[bToAdjacentRangeAfter |-> x.bToAdjacentRangeAfter,
                newTokenIdStart |->
                    IF x.bToAdjacentRangeBefore
                    THEN GetRange(x.db, propertyId, tokenIdStart - 1, "RangeIndex")[1]
                    ELSE tokenIdStart,
                db |-> DeleteRangeIf(x.bToAdjacentRangeBefore, x.db, propertyId,
                                     GetRange(x.db, propertyId, tokenIdStart - 1, "RangeIndex"),
                                     "RangeIndex")] : x \in s2}
        s4 == {[newTokenIdStart |-> x.newTokenIdStart,
                newTokenIdEnd |->
                    IF x.bToAdjacentRangeAfter
                    THEN GetRange(x.db, propertyId, tokenIdEnd + 1, "RangeIndex")[2]
                    ELSE tokenIdEnd,
                db |-> DeleteRangeIf(x.bToAdjacentRangeAfter, x.db, propertyId,
                                     GetRange(x.db, propertyId, tokenIdEnd + 1, "RangeIndex"),
                                     "RangeIndex")] : x \in s3}
        s5 == {AddRange(x.db, propertyId, x.newTokenIdStart, x.newTokenIdEnd, to, "RangeIndex") :
                 x \in s4}
    IN IF ~MoveNonFungibleTokens_Owns(store, propertyId, tokenIdStart, tokenIdEnd, from, to)
       THEN [ok |-> FALSE, store |-> store]
       ELSE [ok |-> TRUE, store |-> Only(s5)]

\* ChangeNonFungibleTokenData, the first loop: the ranges found by walking
\* from tokenIdStart, each lookup starting one past the range found before;
\* the walk ends at the first token that is in no range
RECURSIVE ChangeNonFungibleTokenData_ranges(_, _, _, _, _, _)
ChangeNonFungibleTokenData_ranges(store, propertyId, i, tokenIdEnd, type, ranges) ==
    IF i > tokenIdEnd THEN ranges
    ELSE LET tokenRange == GetRange(store, propertyId, i, type)
         IN IF tokenRange = <<0, 0>> THEN ranges
            ELSE ChangeNonFungibleTokenData_ranges(store, propertyId, tokenRange[2] + 1,
                                                   tokenIdEnd, type, ranges \cup {tokenRange})

\* DeleteRange for each range of a set
RECURSIVE DeleteRanges(_, _, _, _)
DeleteRanges(store, propertyId, ranges, type) ==
    IF ranges = {} THEN store
    ELSE LET r == CHOOSE x \in ranges : TRUE
         IN DeleteRanges(DeleteRange(store, propertyId, r[1], r[2], type),
                         propertyId, ranges \ {r}, type)

\* ChangeNonFungibleTokenData: the ranges found are deleted, what the first
\* and the last of them hold outside tokenIdStart..tokenIdEnd is written
\* back, and the new data is written for tokenIdStart..tokenIdEnd
ChangeNonFungibleTokenData(store, propertyId, tokenIdStart, tokenIdEnd, data, type) ==
    LET ranges == ChangeNonFungibleTokenData_ranges(store, propertyId, tokenIdStart,
                                                    tokenIdEnd, type, {})
        begin == CHOOSE r \in ranges : \A r2 \in ranges : KeyLessEq(r, r2)
        rbegin == CHOOSE r \in ranges : \A r2 \in ranges : KeyLessEq(r2, r)
        beforeData == GetNonFungibleTokenValue(store, propertyId, begin[1], type)
        afterData == GetNonFungibleTokenValue(store, propertyId, rbegin[1], type)
        d1 == DeleteRanges(store, propertyId, ranges, type)
        d2 == IF begin[1] < tokenIdStart
              THEN AddRange(d1, propertyId, begin[1], tokenIdStart - 1, beforeData, type)
              ELSE d1
        d3 == IF rbegin[2] > tokenIdEnd
              THEN AddRange(d2, propertyId, tokenIdEnd + 1, rbegin[2], afterData, type)
              ELSE d2
    IN AddRange(IF ranges = {} THEN store ELSE d3,
                propertyId, tokenIdStart, tokenIdEnd, data, type)

\* CreateNonFungibleTokens.  highestId + 1 is computed before the overflow
\* test: when highestId is the greatest int64_t the addition overflows and
\* the start of the new range is whatever the build makes of it (wrapped)
CreateNonFungibleTokens(store, propertyId, amount, owner, info, wrapped) ==
    LET highestId == GetHighestRangeEnd(store, propertyId)
        newTokenStartId == IF highestId = Int64Max THEN wrapped ELSE highestId + 1
        newTokenEndId == IF highestId > Int64Max - amount THEN Int64Max
                         ELSE highestId + amount
        d1 == AddRange(store, propertyId, newTokenStartId, newTokenEndId, info, "GrantData")
        merge == GetNonFungibleTokenValue(d1, propertyId, highestId, "RangeIndex") = owner
        oldRange == GetRange(d1, propertyId, highestId, "RangeIndex")
        d2 == IF merge
              THEN DeleteRange(d1, propertyId, oldRange[1], oldRange[2], "RangeIndex")
              ELSE d1
    IN IF amount < 0 THEN [range |-> <<0, 0>>, store |-> store]
       ELSE [range |-> <<newTokenStartId, newTokenEndId>>,
             store |-> AddRange(d2, propertyId,
                                IF merge THEN oldRange[1] ELSE newTokenStartId,
                                newTokenEndId, owner, "RangeIndex")]

\* SanityCheck: the properties whose greatest RangeIndex end is not the
\* total of the tally; the node is aborted when there is one
SanityCheck(store, totals) ==
    LET index == {k \in DOMAIN store : parseNFTKey(k).type = "RangeIndex"}
        props == {parseNFTKey(k).propertyId : k \in index}
        total(p) == MaxOf({0} \cup {parseNFTKey(k).end :
                                       k \in {x \in index : parseNFTKey(x).propertyId = p}})
    IN {p \in props : totals[p] # total(p)}

----------------------------------------------------------------------------
(* The token store under the transactions that write it *)

\* the properties with unique tokens, the token ids and the data written
NFTProperties == {1}
TokenIds == 1..Int64Max

\* the store opened empty, nothing granted yet
InitNFT ==
    /\ InitCore
    /\ InitUnits
    /\ overrideforcedshutdown = FALSE
    /\ abortNode = ""
    /\ nftdb = EmptyStore
    /\ totalTokens = [p \in NFTProperties |-> 0]
    /\ feedb = EmptyStore
    /\ feehistdb = EmptyStore
    /\ nBlockNow = 0
    /\ last = NoOp

\* a grant of unique tokens: refused when the total would pass the greatest
\* amount, else the tally is credited and the tokens are created
NFT_Grant ==
    /\ abortNode = ""
    /\ \E p \in NFTProperties, amount \in TokenIds, owner \in Addrs :
          IF amount > Int64Max - totalTokens[p]
          THEN /\ last' = [op |-> "tx", ok |-> FALSE]
               /\ UNCHANGED <<nftdb, totalTokens, sysVars>>
          ELSE /\ totalTokens' = [totalTokens EXCEPT ![p] = @ + amount]
               /\ nftdb' = CreateNonFungibleTokens(nftdb, p, amount, owner, "g", 0).store
               /\ last' = [op |-> "tx", ok |-> TRUE]
    /\ UNCHANGED <<coreVars, unitVars, overrideforcedshutdown, abortNode, feedb, feehistdb, nBlockNow,
                   sysVars>>

\* a send of the tokens start..end
NFT_Send ==
    /\ abortNode = ""
    /\ \E p \in NFTProperties, start \in TokenIds, end \in TokenIds, from \in Addrs, to \in Addrs :
          /\ start <= end
          /\ \E r \in {MoveNonFungibleTokens(nftdb, p, start, end, from, to)} :
                /\ nftdb' = r.store
                /\ last' = [op |-> "tx", ok |-> r.ok]
    /\ UNCHANGED <<coreVars, unitVars, overrideforcedshutdown, abortNode, totalTokens, feedb,
                   feehistdb, nBlockNow, sysVars>>

\* the rows of issuer and holder data
NFTDataRows(store) ==
    {k \in DOMAIN store : parseNFTKey(k).type \in {"IssuerData", "HolderData"}}

\* issuer or holder data set on the tokens start..end; one range is written
NFT_SetData ==
    /\ abortNode = ""
    /\ NFTDataRows(nftdb) = {}
    /\ \E p \in NFTProperties, start \in TokenIds, end \in TokenIds,
          type \in {"IssuerData", "HolderData"} :
          /\ start <= end
          /\ nftdb' = ChangeNonFungibleTokenData(nftdb, p, start, end, "d1", type)
          /\ last' = [op |-> "tx", ok |-> TRUE]
    /\ UNCHANGED <<coreVars, unitVars, overrideforcedshutdown, abortNode, totalTokens, feedb,
                   feehistdb, nBlockNow, sysVars>>

\* the end of a block: the sanity check of the token store
NFT_EndBlock ==
    /\ abortNode = ""
    /\ \E failed \in {SanityCheck(nftdb, totalTokens)} :
          /\ abortNode' = IF failed # {} THEN "Failed sanity check" ELSE ""
          /\ last' = [op |-> "end", ok |-> failed = {}]
    /\ UNCHANGED <<coreVars, unitVars, overrideforcedshutdown, nftdb, totalTokens, feedb, feehistdb,
                   nBlockNow, sysVars>>

NextNFT == NFT_Grant \/ NFT_Send \/ NFT_SetData \/ NFT_EndBlock

SpecNFT == InitNFT /\ [][NextNFT]_vars

----------------------------------------------------------------------------
(* Properties of the token store *)

\* the rows of a kind of a property, as [start, end, value]
NFTRows(store, propertyId, type) ==
    {[start |-> parseNFTKey(k).start, end |-> parseNFTKey(k).end, value |-> store[k]] :
        k \in {x \in DOMAIN store : /\ parseNFTKey(x).propertyId = propertyId
                                    /\ parseNFTKey(x).type = type}}

\* two rows that have a token in common
Overlap(a, b) == a.start <= b.end /\ b.start <= a.end

\* the rows of a set are pairwise disjoint
Disjoint(rows) == \A a \in rows, b \in rows : a # b => ~Overlap(a, b)

\* the tokens the rows of a set hold, counted row by row
RECURSIVE TokensIn(_)
TokensIn(rows) ==
    IF rows = {} THEN 0
    ELSE LET r == CHOOSE x \in rows : TRUE
         IN (r.end - r.start + 1) + TokensIn(rows \ {r})

C14_RangeIndexAddsUpToTotal ==
    last.op = "end" =>
        \A p \in NFTProperties : TokensIn(NFTRows(nftdb, p, "RangeIndex")) = totalTokens[p]

\* a block has ended with every token id granted and held in several ranges
C14_Witness ==
    /\ last.op = "end"
    /\ totalTokens[1] = Int64Max
    /\ Cardinality(NFTRows(nftdb, 1, "RangeIndex")) > 1

----------------------------------------------------------------------------
(* Moves of token ranges, from the ranges of scenario S5 *)

\* the property of the scenario, and one without tokens
MoveProperties == {42, 43}

\* the range starts and the range ends a move is drawn from
MoveStarts == {1, 40, 61, 101}
MoveEnds == {39, 60, 100, 150}

\* RangeIndex [1..100] = Alice, [101..150] = Bob of property 42
S5Ranges ==
    AddRange(AddRange(EmptyStore, 42, 1, 100, Sender, "RangeIndex"),
             42, 101, 150, Receiver, "RangeIndex")

InitMove ==
    /\ InitCore
    /\ InitUnits
    /\ overrideforcedshutdown = FALSE
    /\ abortNode = ""
    /\ nftdb = S5Ranges
    /\ totalTokens = <<>>
    /\ feedb = EmptyStore
    /\ feehistdb = EmptyStore
    /\ nBlockNow = 0
    /\ last = NoOp

\* a move of tokenIdStart..tokenIdEnd from one address to another; 'last'
\* keeps the call, its result and the store it was applied to
NFT_Move ==
    /\ \E p \in MoveProperties, start \in MoveStarts, end \in MoveEnds, from \in Addrs, to \in Addrs :
          /\ start <= end
          /\ \E r \in {MoveNonFungibleTokens(nftdb, p, start, end, from, to)} :
                /\ nftdb' = r.store
                /\ last' = [op |-> "move", ok |-> r.ok, before |-> nftdb, propertyId |-> p,
                            start |-> start, end |-> end, from |-> from, to |-> to]
    /\ UNCHANGED <<coreVars, unitVars, overrideforcedshutdown, abortNode, totalTokens, feedb,
                   feehistdb, nBlockNow, sysVars>>

SpecMove == InitMove /\ [][NFT_Move]_vars

\* some RangeIndex row of the property holds the whole of start..end and
\* belongs to 'owner'
Covered(store, propertyId, start, end, owner) ==
    \E r \in NFTRows(store, propertyId, "RangeIndex") :
        r.start <= start /\ end <= r.end /\ r.value = owner

\* C15: a move succeeds only if some range of the property covers
\* start..end with owner 'from'; otherwise it fails and the store is the
\* store it was applied to
C15_MoveRequiresCoveringRange ==
    last.op = "move" =>
        /\ last.ok <=> Covered(last.before, last.propertyId, last.start, last.end, last.from)
        /\ ~last.ok => nftdb = last.before

\* a move has failed whose first token was the sender's but whose range
\* reached into a range of the other owner
C15_Witness ==
    /\ last.op = "move"
    /\ ~last.ok
    /\ GetNonFungibleTokenValue(last.before, last.propertyId, last.start, "RangeIndex") = last.from
    /\ GetNonFungibleTokenValue(last.before, last.propertyId, last.end, "RangeIndex") # last.from

\* the RangeIndex rows of the scenario after its first and second move
S5AfterFirst ==
    {[start |-> 1, end |-> 39, value |-> Sender], [start |-> 40, end |-> 60, value |-> Receiver],
     [start |-> 61, end |-> 100, value |-> Sender], [start |-> 101, end |-> 150, value |-> Receiver]}
S5AfterSecond ==
    {[start |-> 1, end |-> 39, value |-> Sender], [start |-> 40, end |-> 150, value |-> Receiver]}

\* the last operation moved start..end of property 42 from Alice to Bob
S5Moved(start, end) ==
    /\ last.op = "move"
    /\ last.propertyId = 42
    /\ last.start = start /\ last.end = end
    /\ last.from = Sender /\ last.to = Receiver

\* the store holds exactly these RangeIndex rows of property 42
S5Holds(store, rows) ==
    /\ NFTRows(store, 42, "RangeIndex") = rows
    /\ Cardinality(DOMAIN store) = Cardinality(rows)

\* C16: from [1..100] = Alice, [101..150] = Bob, moving [40..60] from Alice
\* to Bob gives [1..39] = Alice, [40..60] = Bob, [61..100] = Alice,
\* [101..150] = Bob, and moving [61..100] from Alice to Bob then gives
\* [1..39] = Alice, [40..150] = Bob
C16_ScenarioS5 ==
    /\ S5Moved(40, 60) /\ last.before = S5Ranges => last.ok /\ S5Holds(nftdb, S5AfterFirst)
    /\ S5Moved(61, 100) /\ S5Holds(last.before, S5AfterFirst) =>
          last.ok /\ S5Holds(nftdb, S5AfterSecond)

\* the second move of the scenario has been applied to the result of the first
C16_Witness ==
    /\ S5Moved(61, 100)
    /\ S5Holds(last.before, S5AfterFirst)
    /\ S5Holds(nftdb, S5AfterSecond)

----------------------------------------------------------------------------
(* Creation of tokens, up to the end of the id space *)

\* the grants a store is followed through
MaxGrants == 3

\* what highestId + 1 may come out as when it overflows: any int64_t
Int64Range == (0 - Int64Max - 1)..Int64Max

\* a call of CreateNonFungibleTokens with a positive amount, on the store
\* as earlier calls have left it; 'last' keeps the call and its result
NFT_Create ==
    /\ Cardinality(NFTRows(nftdb, 1, "GrantData")) < MaxGrants
    /\ \E amount \in TokenIds, owner \in Addrs, wrapped \in Int64Range :
          \E r \in {CreateNonFungibleTokens(nftdb, 1, amount, owner, "g", wrapped)} :
             /\ nftdb' = r.store
             /\ last' = [op |-> "create", before |-> nftdb, amount |-> amount,
                         start |-> r.range[1], end |-> r.range[2]]
    /\ UNCHANGED <<coreVars, unitVars, overrideforcedshutdown, abortNode, totalTokens, feedb,
                   feehistdb, nBlockNow, sysVars>>

SpecCreate == InitNFT /\ [][NFT_Create]_vars

\* C17: create gives the ids from highest_end + 1 to highest_end + amount,
\* or to the greatest id if highest_end + amount would pass it
C17_CreateExtendsAndSaturates ==
    last.op = "create" =>
        LET highest == GetHighestRangeEnd(last.before, 1)
        IN /\ last.start = highest + 1
           /\ last.end = IF highest + last.amount > Int64Max THEN Int64Max
                         ELSE highest + last.amount

----------------------------------------------------------------------------
(* Data writes on the tokens of a property *)

\* the data a write sets
TokenData == {"d1", "d2"}

\* the tokens of the property have been granted to one owner
InitNFTData ==
    /\ InitCore
    /\ InitUnits
    /\ overrideforcedshutdown = FALSE
    /\ abortNode = ""
    /\ nftdb = CreateNonFungibleTokens(EmptyStore, 1, Int64Max, Sender, "g", 0).store
    /\ totalTokens = [p \in NFTProperties |-> Int64Max]
    /\ feedb = EmptyStore
    /\ feehistdb = EmptyStore
    /\ nBlockNow = 0
    /\ last = NoOp

\* a data write on tokens start..end, of the issuer or of the holder
NFT_WriteData ==
    /\ \E start \in TokenIds, end \in TokenIds, data \in TokenData,
          type \in {"IssuerData", "HolderData"} :
          /\ start <= end
          /\ nftdb' = ChangeNonFungibleTokenData(nftdb, 1, start, end, data, type)
          /\ last' = [op |-> "data", ok |-> TRUE]
    /\ UNCHANGED <<coreVars, unitVars, overrideforcedshutdown, abortNode, totalTokens, feedb,
                   feehistdb, nBlockNow, sysVars>>

SpecNFTData == InitNFTData /\ [][NFT_WriteData]_vars

\* C18: after every data write the ranges stored for a property and a
\* kind are pairwise disjoint
C18_DataRangesDisjoint ==
    last.op = "data" =>
        \A p \in NFTProperties, type \in NonFungibleStorage : Disjoint(NFTRows(nftdb, p, type))

----------------------------------------------------------------------------
(* The end of a block: sanity check, checkpoint verification, persistence *)

\* the blocks the end of block is followed through
MaxEndBlocks == 4

\* the message of SanityCheck and the message of a failed checkpoint
SanityMsg == "Failed sanity check on property"
CheckpointMsg == "Shutting down due to failed checkpoint. Please restart with -startclean flag"

\* variant: the node is aborted whatever the option says
MayAbortNode_Always(override, ps, abort, message) ==
    [persisted |-> {}, abortNode |-> message]

\* MayAbortNode: unless -overrideforcedshutdown is set, MP_persist is
\* removed and the node is aborted; with the option nothing is done
MayAbortNode(override, ps, abort, message) ==
    IF ~override THEN [persisted |-> {}, abortNode |-> message]
    ELSE [persisted |-> ps, abortNode |-> abort]

\* EndProcessTx from the sanity check on, for block b of the given height.
\* SanityCheck calls AbortNode itself; AbortNode requests the shutdown and
\* returns, so the checkpoint verification and the persistence follow
EndProcessTx_Checks(override, ps, m, b, height, store, totals, checkpointValid) ==
    LET failed == SanityCheck(store, totals)
        abort == IF failed # {} THEN SanityMsg ELSE ""
        r == IF ~checkpointValid THEN MayAbortNode(override, ps, abort, CheckpointMsg)
             ELSE [persisted |-> ps, abortNode |-> abort]
    IN [sanity |-> failed = {},
        abortNode |-> r.abortNode,
        persisted |-> IF checkpointValid /\ height >= GENESIS_BLOCK /\ IsPersistenceEnabled(height)
                      THEN PersistInMemoryState(r.persisted, m, b)
                      ELSE r.persisted]

\* the option is set or not; the token store holds the tokens of a grant,
\* or none
InitEnd ==
    /\ InitCore
    /\ InitUnits
    /\ overrideforcedshutdown \in BOOLEAN
    /\ abortNode = ""
    /\ nftdb \in {EmptyStore} \cup
                 {CreateNonFungibleTokens(EmptyStore, 1, amount, Sender, "g", 0).store :
                    amount \in TokenIds}
    /\ totalTokens = [p \in NFTProperties |-> GetHighestRangeEnd(nftdb, p)]
    /\ feedb = EmptyStore
    /\ feehistdb = EmptyStore
    /\ nBlockNow = 0
    /\ last = NoOp

\* the host connects a block without protocol transactions and the
\* pipeline reaches EndProcessTx; VerifyCheckpoint answers either way, and
\* getTotalTokens answers with the totals the tally has at that height
End_Block ==
    /\ abortNode = ""
    /\ nBlockNow < MaxEndBlocks
    /\ \E checkpointValid \in BOOLEAN, totals \in [NFTProperties -> 0..Int64Max] :
          \E r \in {EndProcessTx_Checks(overrideforcedshutdown, persisted, mem, Len(blocks) + 1,
                                        nBlockNow, nftdb, totals, checkpointValid)} :
             /\ totalTokens' = totals
             /\ persisted' = r.persisted
             /\ abortNode' = r.abortNode
             /\ last' = [op |-> "end", ok |-> r.sanity, checkpointValid |-> checkpointValid,
                         block |-> Len(blocks) + 1, before |-> persisted]
    /\ blocks' = Append(blocks, [nHeight |-> nBlockNow, pprev |-> hostTip,
                                 vtx |-> <<Coinbase(Len(blocks) + 1)>>])
    /\ hostTip' = Len(blocks) + 1
    /\ nBlockNow' = nBlockNow + 1
    /\ UNCHANGED <<shutdownRequested, vChain, disconnectInitiated, txsToDelete, inputsToRestore,
                   pc, cur, sync, txIdx, proc, mem, db, sysVars>>
    /\ UNCHANGED <<unitVars, overrideforcedshutdown, nftdb, feedb, feehistdb, sysVars>>

SpecEnd == InitEnd /\ [][End_Block]_vars

\* the checkpoint of the block just ended is on disk
PersistedLast == \E p \in persisted : p.block = last.block

C12_ConsistencyErrorRemovesPersisted ==
    last.op = "end" /\ ~last.ok =>
        /\ abortNode # ""
        /\ ~overrideforcedshutdown => persisted = {}

----------------------------------------------------------------------------
(* The fee cache and the fee history (dbbase.cpp) *)

PrefixCacheAmount == 99      \* 'c'
PrefixDisTreshold == 100     \* 'd', fee cache store
PrefixDistribution == 100    \* 'd', fee history store
PrefixDistributionProperty == 112 \* 'p'

\* the divisor of the distribution threshold
OMNI_FEE_THRESHOLD == 2

\* CDisTresholdKey: VARINT(propertyId)
KeyDisTreshold(propertyId) == <<PrefixDisTreshold>> \o Varint(propertyId)

\* CCacheAmountKey: VARINT(propertyId), ser_writedata32be(~block)
KeyCacheAmount(propertyId, block) ==
    <<PrefixCacheAmount>> \o Varint(propertyId) \o BigEndian32Inv(block)

\* PartialKey<CCacheAmountKey>(propertyId): the prefix and the default
\* serialisation of the uint32_t handed in
PartialKeyCacheAmount(propertyId) == <<PrefixCacheAmount>> \o LittleEndian32(propertyId)

\* int64_t in its default serialisation, for totals below 256
Int64Bytes(x) == <<x, 0, 0, 0, 0, 0, 0, 0>>

\* CDistributionKey: ~id and ~block big endian, VARINT(propertyId), total
KeyDistribution(id, block, propertyId, total) ==
    <<PrefixDistribution>> \o BigEndian32Inv(id) \o BigEndian32Inv(block)
                           \o Varint(propertyId) \o Int64Bytes(total)

\* CDistributionPropertyKey: propertyId, id
KeyDistributionProperty(propertyId, id) ==
    <<PrefixDistributionProperty>> \o LittleEndian32(propertyId) \o LittleEndian32(id)

\* ~ser_readdata32be of the four bytes of a key from position i
ReadBigEndian32Inv(key, i) ==
    (255 - key[i]) * 16777216 + (255 - key[i + 1]) * 65536
        + (255 - key[i + 2]) * 256 + (255 - key[i + 3])

\* the bytes a VARINT takes, and its value, from position i of a key
VarintLen(key, i) == IF key[i] < 128 THEN 1 ELSE 2
ReadVarint(key, i) == IF key[i] < 128 THEN key[i] ELSE (key[i] - 128 + 1) * 128 + key[i + 1]

\* CCacheAmountKey::Unserialize
ParseCacheAmountKey(key) ==
    [propertyId |-> ReadVarint(key, 2),
     block |-> ReadBigEndian32Inv(key, 2 + VarintLen(key, 2))]

\* CDistributionKey::Unserialize
ParseDistributionKey(key) ==
    [id |-> ReadBigEndian32Inv(key, 2),
     block |-> ReadBigEndian32Inv(key, 6),
     propertyId |-> ReadVarint(key, 10),
     total |-> key[10 + VarintLen(key, 10)]]

\* the keys of a store that start with a prefix byte, and the least of the
\* keys that are not below a key: where Seek puts the iterator
KeysOf(store, prefix) == {k \in DOMAIN store : k[1] = prefix}
KeysFrom(store, key) == {k \in DOMAIN store : KeyLessEq(key, k)}

\* GetDistributionThreshold: 0 when the property has no row
GetDistributionThreshold(store, propertyId) ==
    IF KeyDisTreshold(propertyId) \in DOMAIN store THEN store[KeyDisTreshold(propertyId)]
    ELSE 0

\* variant: the quotient is stored as it is
UpdateDistributionThresholds_NoFloor(store, propertyId, total) ==
    Put(store, KeyDisTreshold(propertyId), total \div OMNI_FEE_THRESHOLD)

\* UpdateDistributionThresholds: total / OMNI_FEE_THRESHOLD, at least 1
UpdateDistributionThresholds(store, propertyId, total) ==
    Put(store, KeyDisTreshold(propertyId),
        IF total \div OMNI_FEE_THRESHOLD <= 0 THEN 1 ELSE total \div OMNI_FEE_THRESHOLD)

\* GetCachedAmount: the value of the first row that starts with the
\* partial key, 0 without one
GetCachedAmount(store, propertyId) ==
    LET rows == {k \in DOMAIN store : StartsWith(k, PartialKeyCacheAmount(propertyId))}
    IN IF rows = {} THEN 0 ELSE store[FirstKey(rows)]

\* the rows of the cache of a property
CacheRows(store, propertyId) ==
    {k \in KeysOf(store, PrefixCacheAmount) : ParseCacheAmountKey(k).propertyId = propertyId}

\* the amount of the newest cache row of a property, 0 without a row
NewestCachedAmount(store, propertyId) ==
    IF CacheRows(store, propertyId) = {} THEN 0
    ELSE store[FirstKey(CacheRows(store, propertyId))]

\* delete of a set of keys: WriteBatch
RECURSIVE DeleteKeys(_, _)
DeleteKeys(store, keys) ==
    IF keys = {} THEN store
    ELSE LET k == CHOOSE x \in keys : TRUE
         IN DeleteKeys(Delete(store, k), keys \ {k})

\* PruneCache: the iterator is put on CCacheAmountKey{propertyId, block + 1}
\* and moved forward, that is to lower blocks, deleting the rows of the
\* property
PruneCache(store, propertyId, block) ==
    DeleteKeys(store, KeysFrom(store, KeyCacheAmount(propertyId, block + 1))
                        \cap CacheRows(store, propertyId))

\* ClearCache
ClearCache(store, propertyId, block) ==
    PruneCache(Delete(store, KeyCacheAmount(propertyId, block)), propertyId, block)

\* STO_GetReceivers for the fee distribution: the holder of the main token
\* receives the amount, nobody receives an amount of 0
STO_GetReceivers(amount) ==
    IF amount = 0 THEN {} ELSE {[address |-> Sender, amount |-> amount]}

\* the rows of the distributions, and the first of them: the one with the
\* greatest id
DistributionRows(store) == KeysOf(store, PrefixDistribution)

\* RecordFeeDistribution.  The id is taken from the value of the first row
\* read as a CDistributionKey: the value is a set of recipients, which for
\* an empty set is too short to be read, and then the id of a default key,
\* ~0u, plus 1 is 0; for other sets the id is what the bytes of the
\* recipients happen to give (bytesId)
RecordFeeDistribution(store, propertyId, block, total, feeRecipients, bytesId) ==
    LET rows == DistributionRows(store)
        id == IF rows = {} THEN 1
              ELSE IF store[FirstKey(rows)] = {} THEN 0
              ELSE bytesId
    IN Put(Put(store, KeyDistributionProperty(propertyId, id), ""),
           KeyDistribution(id, block, propertyId, total), feeRecipients)

\* DistributeCache: the cached amount goes to the receivers, the
\* distribution is recorded and the cache cleared
DistributeCache(cache, hist, propertyId, block, bytesId) ==
    LET cachedAmount == GetCachedAmount(cache, propertyId)
    IN [cache |-> ClearCache(cache, propertyId, block),
        hist |-> RecordFeeDistribution(hist, propertyId, block, cachedAmount,
                                       STO_GetReceivers(cachedAmount), bytesId)]

\* EvalCache: distribution when the cached amount has reached the threshold
EvalCache(cache, hist, propertyId, block, bytesId) ==
    IF GetCachedAmount(cache, propertyId) >= GetDistributionThreshold(cache, propertyId)
    THEN DistributeCache(cache, hist, propertyId, block, bytesId)
    ELSE [cache |-> cache, hist |-> hist]

\* AddFee.  On overflow, unless -overrideforcedshutdown is set, MP_persist
\* is removed and the node aborted; the sum is computed all the same and
\* is then whatever the overflowing addition gives (wrapped)
AddFee(cache, hist, ps, abort, override, propertyId, block, amount, wrapped, bytesId) ==
    LET currentCachedAmount == GetCachedAmount(cache, propertyId)
        overflow == currentCachedAmount > 0 /\ amount > Int64Max - currentCachedAmount
        newCachedAmount == IF currentCachedAmount + amount > Int64Max THEN wrapped
                           ELSE currentCachedAmount + amount
        written == Put(cache, KeyCacheAmount(propertyId, block), newCachedAmount)
        r == EvalCache(PruneCache(written, propertyId, block), hist, propertyId, block, bytesId)
    IN [cache |-> r.cache, hist |-> r.hist,
        persisted |-> IF overflow /\ ~override THEN {} ELSE ps,
        abortNode |-> IF overflow /\ ~override THEN "Shutting down due to fee cache overflow"
                      ELSE abort]

\* RollBackCache, the rows deleted for one property: the iterator is put
\* on CCacheAmountKey{propertyId, startBlock} and moved backward, that is
\* to higher blocks, while it is on a cache row of the property
RollBackCache_rows(store, propertyId, startBlock) ==
    LET from == KeysFrom(store, KeyCacheAmount(propertyId, startBlock))
    IN IF from = {} THEN {}
       ELSE IF FirstKey(from) \notin CacheRows(store, propertyId) THEN {}
       ELSE {k \in CacheRows(store, propertyId) : KeyLessEq(k, FirstKey(from))}

\* RollBackCache: for the properties of the main ecosystem below the next
\* id to allocate (no property of the test ecosystem has been created)
RollBackCache(store, nextSPID, block) ==
    DeleteKeys(store, UNION {RollBackCache_rows(store, p, block) : p \in 1..(nextSPID - 1)})

\* RollBackHistory: from the first row of the distributions to the first
\* one of a block below 'block', rows and their property rows are deleted
RollBackHistory(store, block) ==
    LET rows == DistributionRows(store)
        visited == {k \in rows : \A k2 \in rows :
                       KeyLessEq(k2, k) => ParseDistributionKey(k2).block >= block}
    IN DeleteKeys(store, visited \cup
                         {KeyDistributionProperty(ParseDistributionKey(k).propertyId,
                                                  ParseDistributionKey(k).id) : k \in visited})

----------------------------------------------------------------------------
(* Fees, block by block, and the rollback of the fee stores *)

\* the blocks fees are followed through, and the greatest fee of a trade
MaxFeeBlocks == 3
MaxFee == 2

\* two properties have been created; fees are taken in them
FeeProperties == {FirstSPID, FirstSPID + 1}

\* the ids the bytes of a set of recipients may be read as
BytesIds == {2}

InitFee ==
    /\ InitCore
    /\ InitUnits
    /\ overrideforcedshutdown = FALSE
    /\ abortNode = ""
    /\ nftdb = EmptyStore
    /\ totalTokens = <<>>
    /\ feedb = EmptyStore
    /\ feehistdb = EmptyStore
    /\ nBlockNow = 1
    /\ last = NoOp

\* the total of a property has changed: UpdateDistributionThresholds
Fee_UpdateDistributionThresholds ==
    /\ abortNode = ""
    /\ \E p \in FeeProperties, total \in 1..(2 * OMNI_FEE_THRESHOLD) :
          /\ feedb' = UpdateDistributionThresholds(feedb, p, total)
          /\ last' = [op |-> "UpdateDistributionThresholds", propertyId |-> p]
    /\ UNCHANGED <<coreVars, unitVars, overrideforcedshutdown, abortNode, nftdb, totalTokens,
                   feehistdb, nBlockNow, sysVars>>

\* a trade of the block pays a fee: AddFee
Fee_AddFee ==
    /\ abortNode = ""
    /\ \E p \in FeeProperties, amount \in 1..MaxFee, bytesId \in BytesIds :
          \E wrapped \in IF GetCachedAmount(feedb, p) + amount > Int64Max THEN Int64Range ELSE {0} :
          \E r \in {AddFee(feedb, feehistdb, persisted, abortNode, overrideforcedshutdown,
                           p, nBlockNow, amount, wrapped, bytesId)} :
             /\ feedb' = r.cache
             /\ feehistdb' = r.hist
             /\ persisted' = r.persisted
             /\ abortNode' = r.abortNode
             /\ last' = [op |-> "AddFee", propertyId |-> p, amount |-> amount,
                         threshold |-> GetDistributionThreshold(feedb, p),
                         cached |-> NewestCachedAmount(feedb, p), hist |-> feehistdb]
    /\ UNCHANGED <<blocks, hostTip, shutdownRequested, vChain, disconnectInitiated, txsToDelete,
                   inputsToRestore, pc, cur, sync, txIdx, proc, mem, db, sysVars>>
    /\ UNCHANGED <<unitVars, overrideforcedshutdown, nftdb, totalTokens, nBlockNow, sysVars>>

\* the block ends and the next one begins
Fee_NextBlock ==
    /\ abortNode = ""
    /\ nBlockNow < MaxFeeBlocks
    /\ nBlockNow' = nBlockNow + 1
    /\ last' = [op |-> "NextBlock"]
    /\ UNCHANGED <<coreVars, unitVars, overrideforcedshutdown, abortNode, nftdb, totalTokens, feedb,
                   feehistdb, sysVars>>

\* RewindDBsState with a checkpoint below 'block': the fee stores are
\* rolled back to it, and the blocks from 'block' on are processed again
Fee_RollBack ==
    /\ abortNode = ""
    /\ \E block \in 1..nBlockNow :
          /\ feedb' = RollBackCache(feedb, FirstSPID + Cardinality(FeeProperties), block)
          /\ feehistdb' = RollBackHistory(feehistdb, block)
          /\ nBlockNow' = block
          /\ last' = [op |-> "RollBack", block |-> block]
    /\ UNCHANGED <<coreVars, unitVars, overrideforcedshutdown, abortNode, nftdb, totalTokens,
                   sysVars>>

NextFee == Fee_UpdateDistributionThresholds \/ Fee_AddFee \/ Fee_NextBlock \/ Fee_RollBack

SpecFee == InitFee /\ [][NextFee]_vars


\* C19: immediately after an AddFee that brings the cached fees of a
\* property to its distribution threshold, the cache of the property is
\* zero and exactly one history record has been added, whose total is the
\* amount distributed, the cached fees with the fee added
C19_ThresholdTriggersDistribution ==
    last.op = "AddFee" /\ last.threshold > 0 /\ last.cached + last.amount >= last.threshold =>
        /\ NewestCachedAmount(feedb, last.propertyId) = 0
        /\ \E k \in DistributionRows(feehistdb) :
              /\ DistributionRows(feehistdb) \ DistributionRows(last.hist) = {k}
              /\ ParseDistributionKey(k).propertyId = last.propertyId
              /\ ParseDistributionKey(k).total = last.cached + last.amount

\* C20: after a rollback to 'block' neither the fee cache nor the fee
\* history holds a row of a height at or above 'block', for any property
C20_RollBackDeletesRowsAbove ==
    last.op = "RollBack" =>
        /\ \A k \in KeysOf(feedb, PrefixCacheAmount) : ParseCacheAmountKey(k).block < last.block
        /\ \A k \in DistributionRows(feehistdb) : ParseDistributionKey(k).block < last.block

\* ---------------------------------------------------------------------
\* The fee cache of one property, with the fees it has been given.
\* SpecFeeAdd runs UpdateDistributionThresholds and AddFee on one property
\* and keeps, next to the stores, the cumulative fee the property is owed:
\* the sum of the amounts added since the fees were last distributed.

\* the property fees are taken in
FeeAddProperty == FirstSPID

\* the largest number of tokens of the property
MaxTotal == 5

\* the cumulative fee after 'amount' is added to 'cumulative' under a
\* threshold: fees at or above the threshold are distributed, which leaves
\* nothing; a threshold never written reads as 0
CumulativeFee(cumulative, amount, threshold) ==
    IF cumulative + amount > Int64Max THEN cumulative + amount
    ELSE IF cumulative + amount >= threshold THEN 0
    ELSE cumulative + amount

InitFeeAdd ==
    /\ InitCore
    /\ InitUnits
    /\ overrideforcedshutdown \in BOOLEAN
    /\ abortNode = ""
    /\ nftdb = EmptyStore
    /\ totalTokens = <<>>
    /\ feedb = EmptyStore
    /\ feehistdb = EmptyStore
    /\ nBlockNow = 1
    /\ last = [op |-> "open", cumulative |-> 0, newCumulative |-> 0]

\* the total of the property has changed: UpdateDistributionThresholds
FeeAdd_UpdateDistributionThresholds ==
    /\ abortNode = ""
    /\ last.newCumulative <= Int64Max
    /\ \E total \in 0..MaxTotal :
          /\ feedb' = UpdateDistributionThresholds(feedb, FeeAddProperty, total)
          /\ last' = [op |-> "UpdateDistributionThresholds", total |-> total,
                      before |-> GetDistributionThreshold(feedb, FeeAddProperty),
                      cumulative |-> last.newCumulative,
                      newCumulative |-> last.newCumulative]
    /\ UNCHANGED <<coreVars, unitVars, overrideforcedshutdown, abortNode, nftdb, totalTokens,
                   feehistdb, nBlockNow, sysVars>>

\* a trade pays a fee in the property: AddFee
FeeAdd_AddFee ==
    /\ abortNode = ""
    /\ last.newCumulative <= Int64Max
    /\ \E amount \in 1..Int64Max, bytesId \in BytesIds :
          \E wrapped \in IF GetCachedAmount(feedb, FeeAddProperty) + amount > Int64Max
                         THEN Int64Range ELSE {0} :
          \E r \in {AddFee(feedb, feehistdb, persisted, abortNode, overrideforcedshutdown,
                           FeeAddProperty, nBlockNow, amount, wrapped, bytesId)} :
             /\ feedb' = r.cache
             /\ feehistdb' = r.hist
             /\ persisted' = r.persisted
             /\ abortNode' = r.abortNode
             /\ last' = [op |-> "AddFee", amount |-> amount,
                         read |-> GetCachedAmount(feedb, FeeAddProperty),
                         cumulative |-> last.newCumulative,
                         newCumulative |->
                             CumulativeFee(last.newCumulative, amount,
                                           GetDistributionThreshold(feedb, FeeAddProperty))]
    /\ UNCHANGED <<blocks, hostTip, shutdownRequested, vChain, disconnectInitiated, txsToDelete,
                   inputsToRestore, pc, cur, sync, txIdx, proc, mem, db, sysVars>>
    /\ UNCHANGED <<unitVars, overrideforcedshutdown, nftdb, totalTokens, nBlockNow, sysVars>>

NextFeeAdd == FeeAdd_UpdateDistributionThresholds \/ FeeAdd_AddFee

SpecFeeAdd == InitFeeAdd /\ [][NextFeeAdd]_vars

\* C21: an AddFee whose amount, added to the cumulative fee of the
\* property, exceeds 2^63-1 aborts the node with the fee cache overflow
\* error
C21_OverflowIsFatal ==
    last.op = "AddFee" /\ last.cumulative + last.amount > Int64Max =>
        abortNode = "Shutting down due to fee cache overflow"

\* C22: the threshold written by UpdateDistributionThresholds is the total
\* of the property divided by OMNI_FEE_THRESHOLD, or 1 if the quotient is
\* 0, and no stored threshold is less than 1
C22_ThresholdIsQuotientAtLeastOne ==
    /\ \A k \in KeysOf(feedb, PrefixDisTreshold) : feedb[k] >= 1
    /\ last.op = "UpdateDistributionThresholds" =>
          /\ last.total >= OMNI_FEE_THRESHOLD =>
                /\ GetDistributionThreshold(feedb, FeeAddProperty) * OMNI_FEE_THRESHOLD
                      <= last.total
                /\ (GetDistributionThreshold(feedb, FeeAddProperty) + 1) * OMNI_FEE_THRESHOLD
                      > last.total
          /\ last.total < OMNI_FEE_THRESHOLD =>
                GetDistributionThreshold(feedb, FeeAddProperty) = 1

\* a total below OMNI_FEE_THRESHOLD has been given the threshold 1, after a
\* threshold above 1 had been stored
C22_Witness ==
    /\ last.op = "UpdateDistributionThresholds"
    /\ last.total < OMNI_FEE_THRESHOLD
    /\ last.before > 1
    /\ GetDistributionThreshold(feedb, FeeAddProperty) = 1

\* ---------------------------------------------------------------------
\* The property registry (CMPSPInfo) on its own: properties are created in
\* both ecosystems and updated, block after block, and the registry is
\* rolled back.  An entry is [creation_block, update_block, txid, data].

MaxSPBlocks == 2
\* properties created in the main and in the test ecosystem
MaxSPs == 2
MaxTestSPs == 1

SPData == {"a", "b"}
Ecosystems == {OMNI_PROPERTY_MSC, OMNI_PROPERTY_TMSC}

\* CreateOmniToken and CreateTestOmniToken
implied_omni == [creation_block |-> 0, update_block |-> 0, txid |-> 0, data |-> "Omni tokens"]
implied_tomni ==
    [creation_block |-> 0, update_block |-> 0, txid |-> 0, data |-> "Test Omni tokens"]

\* the entry of a row: its value without the fields of the key
SPEntry(row) == [f \in DOMAIN row \ {"propertyId", "block"} |-> row[f]]

\* the rows of a property
SPRowsOf(d, propertyId) == {r \in d.sp : r.propertyId = propertyId}

\* CMPSPInfo::peekNextSPID
peekNextSPID(s, ecosystem) ==
    IF ecosystem = OMNI_PROPERTY_MSC THEN s.next_spid
    ELSE IF ecosystem = OMNI_PROPERTY_TMSC THEN s.next_test_spid
    ELSE 0

\* variant: one counter step moves both counters
putSP_next_Both(s, ecosystem) ==
    [s EXCEPT !.next_spid = @ + 1, !.next_test_spid = @ + 1]

\* CMPSPInfo::putSP, the switch: the counter of the ecosystem is advanced
putSP_next(s, ecosystem) ==
    IF ecosystem = OMNI_PROPERTY_MSC THEN [s EXCEPT !.next_spid = @ + 1]
    ELSE IF ecosystem = OMNI_PROPERTY_TMSC THEN [s EXCEPT !.next_test_spid = @ + 1]
    ELSE s

\* variant: the implied properties are read from the store like the others
getSP_Stored(d, propertyId) ==
    LET hit == SeekFirst(d.sp, KeyUpdateProperty, <<PrefixUpdateProperty>> \o Varint(propertyId))
    IN IF hit = {} THEN [ok |-> FALSE, info |-> <<>>]
       ELSE [ok |-> TRUE, info |-> SPEntry(CHOOSE r \in hit : TRUE)]

\* CMPSPInfo::getSP: the constant entries of the implied properties, else
\* the value of the first row that starts with the partial key of the id
getSP(d, propertyId) ==
    IF propertyId = OMNI_PROPERTY_MSC THEN [ok |-> TRUE, info |-> implied_omni]
    ELSE IF propertyId = OMNI_PROPERTY_TMSC THEN [ok |-> TRUE, info |-> implied_tomni]
    ELSE LET hit == SeekFirst(d.sp, KeyUpdateProperty,
                              <<PrefixUpdateProperty>> \o Varint(propertyId))
         IN IF hit = {} THEN [ok |-> FALSE, info |-> <<>>]
            ELSE [ok |-> TRUE, info |-> SPEntry(CHOOSE r \in hit : TRUE)]

\* CMPSPInfo::hasSP
hasSP(d, propertyId) ==
    propertyId \in {OMNI_PROPERTY_MSC, OMNI_PROPERTY_TMSC} \/ getSP(d, propertyId).ok

InitSP ==
    /\ InitCore
    /\ overrideforcedshutdown = FALSE
    /\ abortNode = ""
    /\ nftdb = EmptyStore
    /\ totalTokens = <<>>
    /\ feedb = EmptyStore
    /\ feehistdb = EmptyStore
    /\ nBlockNow = 1
    /\ last = NoOp
    /\ spinfo = [db |-> [sp |-> {}, spTx |-> {}], next_spid |-> FirstSPID,
                 next_test_spid |-> TEST_ECO_PROPERTY_1]
    /\ entry = [issuer |-> "", historicalIssuers |-> <<>>,
                delegate |-> "", historicalDelegates |-> <<>>]
    /\ testdb = NoTestDB
    /\ it = NoIterator
    /\ lockTest = NoLockTest
    /\ InitSys

\* a transaction of the block creates a property: putSP
SP_putSP ==
    /\ \E ecosystem \in Ecosystems, data \in SPData :
          LET propertyId == peekNextSPID(spinfo, ecosystem)
              info == [creation_block |-> nBlockNow, update_block |-> nBlockNow,
                       txid |-> Cardinality(spinfo.db.spTx) + 1, data |-> data]
          IN /\ propertyId < (IF ecosystem = OMNI_PROPERTY_MSC THEN FirstSPID + MaxSPs
                              ELSE TEST_ECO_PROPERTY_1 + MaxTestSPs)
             /\ spinfo' = [putSP_next(spinfo, ecosystem) EXCEPT
                              !.db = putSP(spinfo.db, propertyId, info, nBlockNow)]
             /\ last' = [op |-> "putSP", ecosystem |-> ecosystem, propertyId |-> propertyId,
                         info |-> info, next_spid |-> spinfo.next_spid,
                         next_test_spid |-> spinfo.next_test_spid]
    /\ UNCHANGED <<coreVars, overrideforcedshutdown, abortNode, nftdb, totalTokens, feedb,
                   feehistdb, nBlockNow, entry, testdb, it, lockTest, sysVars>>

\* a transaction of the block changes a property: updateSP with the entry
\* read, changed, and marked with the block
SP_updateSP ==
    /\ \E propertyId \in Ecosystems \cup {r.propertyId : r \in spinfo.db.sp}, data \in SPData :
          LET prior == getSP(spinfo.db, propertyId)
              info == [prior.info EXCEPT !.update_block = nBlockNow, !.data = data]
          IN /\ spinfo' = [spinfo EXCEPT !.db = updateSP(@, propertyId, info, nBlockNow)]
             /\ last' = [op |-> "updateSP", propertyId |-> propertyId, info |-> info,
                         block |-> nBlockNow, prior |-> prior,
                         rows |-> SPRowsOf(spinfo.db, propertyId),
                         ok |-> propertyId \notin {OMNI_PROPERTY_MSC, OMNI_PROPERTY_TMSC}]
    /\ UNCHANGED <<coreVars, overrideforcedshutdown, abortNode, nftdb, totalTokens, feedb,
                   feehistdb, nBlockNow, entry, testdb, it, lockTest, sysVars>>

\* the block ends and the next one begins
SP_NextBlock ==
    /\ nBlockNow < MaxSPBlocks
    /\ nBlockNow' = nBlockNow + 1
    /\ last' = [op |-> "NextBlock"]
    /\ UNCHANGED <<coreVars, overrideforcedshutdown, abortNode, nftdb, totalTokens, feedb,
                   feehistdb, unitVars, sysVars>>

\* the registry is rolled back to the blocks below 'block', which is
\* processed next: deleteSPAboveBlock
SP_deleteSPAboveBlock ==
    /\ \E block \in 1..nBlockNow :
          /\ spinfo' = [spinfo EXCEPT !.db = deleteSPAboveBlock(@, spinfo.next_spid,
                                                                  spinfo.next_test_spid, block)]
          /\ nBlockNow' = block
          /\ last' = [op |-> "deleteSPAboveBlock", block |-> block]
    /\ UNCHANGED <<coreVars, overrideforcedshutdown, abortNode, nftdb, totalTokens, feedb,
                   feehistdb, entry, testdb, it, lockTest, sysVars>>

NextSP == SP_putSP \/ SP_updateSP \/ SP_NextBlock \/ SP_deleteSPAboveBlock

SpecSP == InitSP /\ [][NextSP]_vars

C25_CountersIndependent ==
    /\ \A r \in spinfo.db.sp :
          IF r.propertyId < TEST_ECO_PROPERTY_1
          THEN FirstSPID <= r.propertyId /\ r.propertyId < spinfo.next_spid
          ELSE r.propertyId < spinfo.next_test_spid
    /\ last.op = "putSP" /\ last.ecosystem = OMNI_PROPERTY_MSC =>
          /\ last.propertyId = last.next_spid
          /\ spinfo.next_spid = last.next_spid + 1
          /\ spinfo.next_test_spid = last.next_test_spid
    /\ last.op = "putSP" /\ last.ecosystem = OMNI_PROPERTY_TMSC =>
          /\ last.propertyId = last.next_test_spid
          /\ spinfo.next_test_spid = last.next_test_spid + 1
          /\ spinfo.next_spid = last.next_spid

\* a property of the test ecosystem is created after two of the main one
C25_Witness ==
    /\ last.op = "putSP" /\ last.ecosystem = OMNI_PROPERTY_TMSC
    /\ spinfo.next_spid = FirstSPID + 2
    /\ getSP(spinfo.db, TEST_ECO_PROPERTY_1).ok
    /\ getSP(spinfo.db, FirstSPID + 1).ok

\* C26: no row of the registry is a record of property 1 or 2; updateSP of
\* 1 or 2 is refused and writes nothing; getSP of 1 and 2 returns the
\* constant entries and hasSP holds for them
C26_ImpliedNeverStored ==
    /\ \A r \in spinfo.db.sp : r.propertyId \notin {OMNI_PROPERTY_MSC, OMNI_PROPERTY_TMSC}
    /\ getSP(spinfo.db, OMNI_PROPERTY_MSC) = [ok |-> TRUE, info |-> implied_omni]
    /\ getSP(spinfo.db, OMNI_PROPERTY_TMSC) = [ok |-> TRUE, info |-> implied_tomni]
    /\ hasSP(spinfo.db, OMNI_PROPERTY_MSC) /\ hasSP(spinfo.db, OMNI_PROPERTY_TMSC)
    /\ last.op = "updateSP" /\ last.propertyId \in {OMNI_PROPERTY_MSC, OMNI_PROPERTY_TMSC} =>
          /\ ~last.ok
          /\ SPRowsOf(spinfo.db, last.propertyId) = {}
          /\ last.rows = {}

\* an update of property 2 with other data has been refused while the
\* registry holds properties of both ecosystems
C26_Witness ==
    /\ last.op = "updateSP" /\ last.propertyId = OMNI_PROPERTY_TMSC
    /\ last.info.data # implied_tomni.data
    /\ getSP(spinfo.db, FirstSPID).ok
    /\ getSP(spinfo.db, TEST_ECO_PROPERTY_1).ok

\* the rows of a property recorded below a block, and the newest of them
SPRowsBelow(d, propertyId, block) == {r \in SPRowsOf(d, propertyId) : r.update_block < block}
SPNewestBelow(d, propertyId, block) ==
    CHOOSE r \in SPRowsBelow(d, propertyId, block) :
        \A r2 \in SPRowsBelow(d, propertyId, block) : r2.update_block <= r.update_block

\* the registry d2 is d rolled back to the blocks below 'block': of every
\* property whose current record is of 'block' or above, the newest record
\* of a lower block is the current one, and without such a record the
\* property has no record and no creation-tx lookup row
RolledBackAbove(d, d2, block) ==
    \A propertyId \in {r.propertyId : r \in d.sp} :
        getSP(d, propertyId).info.update_block >= block =>
            IF SPRowsBelow(d, propertyId, block) = {}
            THEN /\ SPRowsOf(d2, propertyId) = {}
                 /\ ~\E l \in d2.spTx : l.propertyId = propertyId
            ELSE getSP(d2, propertyId) =
                    [ok |-> TRUE, info |-> SPEntry(SPNewestBelow(d, propertyId, block))]

\* C23: the rollback of the property registry in a rewind to a checkpoint,
\* deleteSPAboveBlock(block) with block the height above the checkpoint,
\* leaves every property whose current record is of 'block' or above with
\* its newest record below 'block', or without record and lookup row
C23_RollbackRestoresOrDeletes ==
    [][RewindStep /\ sync'.loaded >= 0 => RolledBackAbove(db, db', sync'.loaded + 1)]_vars

\* ---------------------------------------------------------------------
\* The issuer and delegate history of a property entry
\* (CMPSPInfo::Entry): updateIssuer, addDelegate and removeDelegate write
\* the maps keyed (block, idx), getIssuer and getDelegate read them.

MaxEntryBlock == 2
MaxEntryIdx == 1
INT_MAX == 2147483647

\* operator< of std::pair<int, int>
PairLess(a, b) == a[1] < b[1] \/ (a[1] = b[1] /\ a[2] < b[2])

\* std::map::upper_bound: the keys greater than key, of which the iterator
\* is on the least; the empty set stands for end()
upper_bound(m, key) == {k \in DOMAIN m : PairLess(key, k)}

\* --it of an iterator that is not begin(): the greatest key before it
Decrement(m, after) ==
    CHOOSE k \in DOMAIN m \ after : \A k2 \in DOMAIN m \ after : k2 = k \/ PairLess(k2, k)

\* variant: the entries of the block itself are passed over
getIssuer_Strict(e, block) ==
    LET after == upper_bound(e.historicalIssuers, <<block, 0>>)
    IN IF after # DOMAIN e.historicalIssuers
       THEN e.historicalIssuers[Decrement(e.historicalIssuers, after)]
       ELSE e.issuer

\* CMPSPInfo::Entry::getIssuer: it != begin() exactly when some key is not
\* greater than (block, INT_MAX)
getIssuer(e, block) ==
    LET after == upper_bound(e.historicalIssuers, <<block, INT_MAX>>)
    IN IF after # DOMAIN e.historicalIssuers
       THEN e.historicalIssuers[Decrement(e.historicalIssuers, after)]
       ELSE e.issuer

\* CMPSPInfo::Entry::getDelegate
getDelegate(e, block) ==
    LET after == upper_bound(e.historicalDelegates, <<block, INT_MAX>>)
    IN IF after # DOMAIN e.historicalDelegates
       THEN e.historicalDelegates[Decrement(e.historicalDelegates, after)]
       ELSE e.delegate

EntryKeys == (1..MaxEntryBlock) \X (0..MaxEntryIdx)

InitEntry ==
    /\ InitCore
    /\ InitStores
    /\ spinfo = [db |-> [sp |-> {}, spTx |-> {}], next_spid |-> FirstSPID,
                 next_test_spid |-> TEST_ECO_PROPERTY_1]
    /\ entry = [issuer |-> Sender, historicalIssuers |-> <<>>,
                delegate |-> "", historicalDelegates |-> <<>>]
    /\ testdb = NoTestDB
    /\ it = NoIterator
    /\ lockTest = NoLockTest
    /\ InitSys

\* CMPSPInfo::Entry::updateIssuer
Entry_updateIssuer ==
    /\ \E key \in EntryKeys, newIssuer \in Addrs :
          /\ entry' = [entry EXCEPT !.historicalIssuers = Put(@, key, newIssuer)]
          /\ last' = [op |-> "updateIssuer", key |-> key]
    /\ UNCHANGED <<coreVars, overrideforcedshutdown, abortNode, nftdb, totalTokens, feedb,
                   feehistdb, nBlockNow, spinfo, testdb, it, lockTest, sysVars>>

\* CMPSPInfo::Entry::addDelegate
Entry_addDelegate ==
    /\ \E key \in EntryKeys :
          /\ entry' = [entry EXCEPT !.historicalDelegates = Put(@, key, Receiver)]
          /\ last' = [op |-> "addDelegate", key |-> key]
    /\ UNCHANGED <<coreVars, overrideforcedshutdown, abortNode, nftdb, totalTokens, feedb,
                   feehistdb, nBlockNow, spinfo, testdb, it, lockTest, sysVars>>

\* CMPSPInfo::Entry::removeDelegate
Entry_removeDelegate ==
    /\ \E key \in EntryKeys :
          /\ entry' = [entry EXCEPT !.historicalDelegates = Put(@, key, "")]
          /\ last' = [op |-> "removeDelegate", key |-> key]
    /\ UNCHANGED <<coreVars, overrideforcedshutdown, abortNode, nftdb, totalTokens, feedb,
                   feehistdb, nBlockNow, spinfo, testdb, it, lockTest, sysVars>>

\* a reader asks for the issuer as of a block
Entry_getIssuer ==
    /\ \E block \in 0..(MaxEntryBlock + 1) :
          last' = [op |-> "getIssuer", block |-> block, result |-> getIssuer(entry, block)]
    /\ UNCHANGED <<coreVars, overrideforcedshutdown, abortNode, nftdb, totalTokens, feedb,
                   feehistdb, nBlockNow, unitVars, sysVars>>

\* a reader asks for the delegate as of a block
Entry_getDelegate ==
    /\ \E block \in 0..(MaxEntryBlock + 1) :
          last' = [op |-> "getDelegate", block |-> block, result |-> getDelegate(entry, block)]
    /\ UNCHANGED <<coreVars, overrideforcedshutdown, abortNode, nftdb, totalTokens, feedb,
                   feehistdb, nBlockNow, unitVars, sysVars>>

NextEntry ==
    \/ Entry_updateIssuer \/ Entry_addDelegate \/ Entry_removeDelegate
    \/ Entry_getIssuer \/ Entry_getDelegate

SpecEntry == InitEntry /\ [][NextEntry]_vars

\* the result of a scan of a history from its first to its last entry that
\* keeps the value of the last entry seen with a block not above 'block':
\* entries are taken in the order of (block, idx)
RECURSIVE ScanHistory(_, _, _, _)
ScanHistory(m, todo, block, found) ==
    IF todo = {} THEN found
    ELSE LET k == CHOOSE k \in todo : \A k2 \in todo : k2 = k \/ PairLess(k, k2)
         IN ScanHistory(m, todo \ {k}, block, IF k[1] <= block THEN m[k] ELSE found)

TestPrefix == 65     \* 'A'
TestFields == {1, 256}
TestTypes == {"CTestAscOrder", "CTestDescOrder"}

\* a < b as uint32_t
UnsignedLess(a, b) == (a < b) # ((a < 0) # (b < 0))

\* variant: the second field is written as it is, not complemented
CTestAscOrder_Serialize_Plain(k) == BigEndian32(k.idx) \o BigEndian32(k.i2)

\* CTestAscOrder::Serialize
CTestAscOrder_Serialize(k) == BigEndian32(k.idx) \o BigEndian32Inv(k.i2)

\* CTestDescOrder::Serialize
CTestDescOrder_Serialize(k) == BigEndian32Inv(k.idx) \o BigEndian32(k.i2)

\* KeyToString: the prefix of the type and the serialised key
KeyToString(T, k) ==
    <<TestPrefix>> \o (IF T = "CTestAscOrder" THEN CTestAscOrder_Serialize(k)
                                            ELSE CTestDescOrder_Serialize(k))

\* ser_readdata32be of the four bytes from position i
ser_readdata32be(s, i) ==
    (IF s[i] >= 128 THEN s[i] - 256 ELSE s[i]) * 16777216
        + s[i + 1] * 65536 + s[i + 2] * 256 + s[i + 3]

\* the bitwise complement of a uint32_t
Complement32(x) == -1 - x

\* StringToKey: CTestAscOrder::Unserialize and CTestDescOrder::Unserialize
\* behind the prefix
StringToKey(T, s) ==
    IF T = "CTestAscOrder"
    THEN [idx |-> ser_readdata32be(s, 2), i2 |-> Complement32(ser_readdata32be(s, 6))]
    ELSE [idx |-> Complement32(ser_readdata32be(s, 2)), i2 |-> ser_readdata32be(s, 6)]

\* a key of another table that lives in the same store
OtherTableKey == KeyBlockTx([block |-> 1, txid |-> 1])

\* the keys the tests write
TestKeys == [idx : TestFields, i2 : TestFields]

\* the keys the tests seek: T{} and T{idx} leave fields at their defaults,
\* idx = 0 and i2 = ~0u in CTestAscOrder, idx = ~0u and i2 = 0 in
\* CTestDescOrder
SeekKeys == [idx : {-1, 0, 1, 2, 256}, i2 : {-1, 0, 1, 256}]

\* CPartialKey(uint8_t prefix)
CPartialKey(prefix) == <<prefix>>

\* PartialKey<T>(uint32_t): the prefix and the default serialisation of the
\* integer
PartialKey_uint32(subkey) == <<TestPrefix>> \o LittleEndian32(subkey)

\* PartialKey<T>(subkey) of a subkey that serialises as the first field of T
PartialKey_Field(T, idx) ==
    <<TestPrefix>> \o (IF T = "CTestAscOrder" THEN BigEndian32(idx) ELSE BigEndian32Inv(idx))

PartialKeys(T) ==
    {CPartialKey(TestPrefix)}
        \cup {PartialKey_uint32(x) : x \in TestFields}
        \cup {PartialKey_Field(T, x) : x \in TestFields \cup {2}}

\* leveldb::Iterator::Seek: the first key at or past target
leveldb_Seek(keys, target) ==
    LET past == {k \in keys : KeyLessEq(target, k)}
    IN IF past = {} THEN End ELSE FirstKey(past)

\* leveldb::Iterator::Next
leveldb_Next(keys, pos) ==
    LET past == {k \in keys : KeyLess(pos, k)}
    IN IF past = {} THEN End ELSE FirstKey(past)

\* variant: any key the leveldb iterator is on counts as valid
SetValid_AnyKey(partialKey, pos) == pos # End

\* CDBaseIterator::SetValid
SetValid(partialKey, pos) == pos # End /\ StartsWith(pos, partialKey)

\* the iterator after a Seek on the keys of the store
Sought(keys, how, partialKey, target) ==
    LET pos == leveldb_Seek(keys, target)
        valid == SetValid(partialKey, pos)
    IN [partialKey |-> partialKey, pos |-> pos, valid |-> valid, keys |-> keys,
        how |-> how, start |-> target,
        visited |-> IF valid THEN <<pos>> ELSE <<>>]

InitIter ==
    /\ InitCore
    /\ InitStores
    /\ spinfo = [db |-> [sp |-> {}, spTx |-> {}], next_spid |-> FirstSPID,
                 next_test_spid |-> TEST_ECO_PROPERTY_1]
    /\ entry = [issuer |-> "", historicalIssuers |-> <<>>,
                delegate |-> "", historicalDelegates |-> <<>>]
    /\ \E T \in TestTypes : testdb = [T |-> T, keys |-> {}]
    /\ it = NoIterator
    /\ lockTest = NoLockTest
    /\ InitSys

\* CDBBase::Write of a key of the table of the test
Iter_Write ==
    /\ \E k \in TestKeys :
          testdb' = [testdb EXCEPT !.keys = @ \cup {KeyToString(testdb.T, k)}]
    /\ UNCHANGED <<coreVars, storeVars, spinfo, entry, it, lockTest, sysVars>>

\* CDBBase::Write of a key of another table
Iter_WriteOther ==
    /\ testdb' = [testdb EXCEPT !.keys = @ \cup {OtherTableKey}]
    /\ UNCHANGED <<coreVars, storeVars, spinfo, entry, it, lockTest, sysVars>>

\* CreateIterator(const T& key): the constructor sets partialKey to the
\* prefix of T and calls Seek(const T&)
Iter_CreateIterator_Key ==
    /\ \E k \in SeekKeys :
          it' = Sought(testdb.keys, "key", CPartialKey(TestPrefix), KeyToString(testdb.T, k))
    /\ UNCHANGED <<coreVars, storeVars, spinfo, entry, testdb, lockTest, sysVars>>

\* CreateIterator(CPartialKey): Seek(CPartialKey)
Iter_CreateIterator_Partial ==
    /\ \E partial \in PartialKeys(testdb.T) :
          it' = Sought(testdb.keys, "partial", partial, partial)
    /\ UNCHANGED <<coreVars, storeVars, spinfo, entry, testdb, lockTest, sysVars>>

\* CDBaseIterator::operator++
Iter_Increment ==
    /\ it.valid
    /\ \E pos \in {leveldb_Next(it.keys, it.pos)} :
       \E valid \in {SetValid(it.partialKey, pos)} :
          it' = [it EXCEPT !.pos = pos, !.valid = valid,
                           !.visited = IF valid THEN Append(@, pos) ELSE @]
    /\ UNCHANGED <<coreVars, storeVars, spinfo, entry, testdb, lockTest, sysVars>>

NextIter ==
    \/ Iter_Write \/ Iter_WriteOther
    \/ Iter_CreateIterator_Key \/ Iter_CreateIterator_Partial
    \/ Iter_Increment

SpecIter == InitIter /\ [][NextIter]_vars

\* the keys of a sequence as a set
Range(s) == {s[i] : i \in DOMAIN s}

LogicalBefore(T, a, b) ==
    IF T = "CTestAscOrder"
    THEN UnsignedLess(a.idx, b.idx) \/ (a.idx = b.idx /\ UnsignedLess(b.i2, a.i2))
    ELSE UnsignedLess(b.idx, a.idx) \/ (a.idx = b.idx /\ UnsignedLess(a.i2, b.i2))

\* C29: an iterator created on a key of a table has stood on exactly the
\* stored keys of the table that are not before the key sought in the logical
\* order (ascending in a big-endian field, descending in a field written as
\* the big-endian of its complement, the second field deciding between equal
\* first fields), up to its position while it is valid, each once and in
\* that order; so the first key it stands on is the first stored key not
\* before the key sought, and every key read back is a key that was written
C29_EncodingOrder ==
    it.how = "key" =>
        LET T == testdb.T
            sought == StringToKey(T, it.start)
            table == {k \in it.keys : StartsWith(k, CPartialKey(TestPrefix))}
        IN /\ \A k \in table : KeyToString(T, StringToKey(T, k)) = k
                                /\ StringToKey(T, k) \in TestKeys
           /\ Range(it.visited) =
                 {k \in table :
                     /\ ~LogicalBefore(T, StringToKey(T, k), sought)
                     /\ it.valid => ~LogicalBefore(T, StringToKey(T, it.pos), StringToKey(T, k))}
           /\ \A i \in 1..(Len(it.visited) - 1) :
                 LogicalBefore(T, StringToKey(T, it.visited[i]), StringToKey(T, it.visited[i + 1]))

\* with the four keys of CTestAscOrder stored, an iterator created on
\* {1, 0} has passed over {1, 256} and {1, 1} and has stood on {256, 256}
\* and then on {256, 1}
C29_Witness ==
    /\ testdb.T = "CTestAscOrder"
    /\ it.how = "key"
    /\ it.start = KeyToString("CTestAscOrder", [idx |-> 1, i2 |-> 0])
    /\ {KeyToString("CTestAscOrder", k) : k \in TestKeys} \subseteq it.keys
    /\ it.visited = <<KeyToString("CTestAscOrder", [idx |-> 256, i2 |-> 256]),
                      KeyToString("CTestAscOrder", [idx |-> 256, i2 |-> 1])>>

\* ---------------------------------------------------------------------
\* The lock test: plusOneThread run by nThreadsNum threads on number::n
\* under locker::cs_number.

\* variant: the lock is handed out whoever holds it
MayLock_Always(cs, t) == TRUE

\* RecursiveMutex: free, or held by the thread that asks
MayLock(cs, t) == cs.owner \in {0, t}

\* the position of a thread at the test of its loop
LoopTest(i) == IF i < nIterations THEN "LOCK" ELSE "exit"

InitLock ==
    /\ InitCore
    /\ InitStores
    /\ spinfo = [db |-> [sp |-> {}, spTx |-> {}], next_spid |-> FirstSPID,
                 next_test_spid |-> TEST_ECO_PROPERTY_1]
    /\ entry = [issuer |-> "", historicalIssuers |-> <<>>,
                delegate |-> "", historicalDelegates |-> <<>>]
    /\ testdb = NoTestDB
    /\ it = NoIterator
    /\ lockTest = NoLockTest
    /\ InitSys

\* threadGroup.emplace_back: the threads are started in order
Lock_emplace_back ==
    /\ \E t \in Threads :
          /\ lockTest.thread[t].pc = "new"
          /\ \A t2 \in 1..(t - 1) : lockTest.thread[t2].pc # "new"
          /\ lockTest' = [lockTest EXCEPT !.thread[t].pc = LoopTest(0)]
    /\ UNCHANGED <<coreVars, storeVars, spinfo, entry, testdb, it, sysVars>>

\* LOCK(locker::cs_number)
Lock_LOCK ==
    /\ \E t \in Threads :
          /\ lockTest.thread[t].pc = "LOCK"
          /\ MayLock(lockTest.cs_number, t)
          /\ lockTest' = [lockTest EXCEPT !.cs_number = [owner |-> t, depth |-> @.depth + 1],
                                          !.thread[t].pc = "read",
                                          !.rounds = Append(@, t)]
    /\ UNCHANGED <<coreVars, storeVars, spinfo, entry, testdb, it, sysVars>>

\* int n = number::n
Lock_Read ==
    /\ \E t \in Threads :
          /\ lockTest.thread[t].pc = "read"
          /\ lockTest' = [lockTest EXCEPT !.thread[t].n = lockTest.n,
                                          !.thread[t].pc = "sleep"]
    /\ UNCHANGED <<coreVars, storeVars, spinfo, entry, testdb, it, sysVars>>

\* UninterruptibleSleep(GetRand(10) ms)
Lock_Sleep ==
    /\ \E t \in Threads :
          /\ lockTest.thread[t].pc = "sleep"
          /\ lockTest' = [lockTest EXCEPT !.thread[t].pc = "write"]
    /\ UNCHANGED <<coreVars, storeVars, spinfo, entry, testdb, it, sysVars>>

\* number::n = n + 1
Lock_WriteBack ==
    /\ \E t \in Threads :
          /\ lockTest.thread[t].pc = "write"
          /\ lockTest' = [lockTest EXCEPT !.n = lockTest.thread[t].n + 1,
                                          !.thread[t].pc = "unlock"]
    /\ UNCHANGED <<coreVars, storeVars, spinfo, entry, testdb, it, sysVars>>

\* the end of the body of the loop: the lock is given back, ++i and the
\* test of the loop
Lock_Unlock ==
    /\ \E t \in Threads :
          /\ lockTest.thread[t].pc = "unlock"
          /\ lockTest' =
                [lockTest EXCEPT
                    !.cs_number = IF @.owner = t
                                  THEN [owner |-> IF @.depth > 1 THEN t ELSE 0,
                                        depth |-> IF @.depth > 0 THEN @.depth - 1 ELSE 0]
                                  ELSE @,
                    !.thread[t].i = @ + 1,
                    !.thread[t].pc = LoopTest(lockTest.thread[t].i + 1)]
    /\ UNCHANGED <<coreVars, storeVars, spinfo, entry, testdb, it, sysVars>>

\* thread.join(): the threads are joined in order
Lock_join ==
    /\ \E t \in Threads :
          /\ lockTest.thread[t].pc = "exit"
          /\ \A t2 \in Threads : lockTest.thread[t2].pc # "new"
          /\ \A t2 \in 1..(t - 1) : lockTest.thread[t2].pc = "joined"
          /\ lockTest' = [lockTest EXCEPT !.thread[t].pc = "joined"]
    /\ UNCHANGED <<coreVars, storeVars, spinfo, entry, testdb, it, sysVars>>

NextLock ==
    \/ Lock_emplace_back \/ Lock_LOCK \/ Lock_Read \/ Lock_Sleep
    \/ Lock_WriteBack \/ Lock_Unlock \/ Lock_join

SpecLock == InitLock /\ [][NextLock]_vars

\* the threads between LOCK and the end of the body of the loop
InBody == {t \in Threads : lockTest.thread[t].pc \in {"read", "sleep", "write", "unlock"}}

\* the number of rounds whose write is done
RECURSIVE Written(_)
Written(ts) ==
    IF ts = {} THEN 0
    ELSE LET t == CHOOSE t \in ts : TRUE
         IN lockTest.thread[t].i + (IF lockTest.thread[t].pc = "unlock" THEN 1 ELSE 0)
                + Written(ts \ {t})

\* C30: at most one thread is in the body of the loop, number::n is the
\* number of rounds written so far (no update is lost), and once every
\* thread is joined it is nThreadsNum * nIterations
C30_NoLostUpdate ==
    /\ Cardinality(InBody) <= 1
    /\ lockTest.n = Written(Threads)
    /\ (\A t \in Threads : lockTest.thread[t].pc = "joined")
          => lockTest.n = nThreadsNum * nIterations

\* every thread is joined after rounds in which the threads took turns
C30_Witness ==
    /\ \A t \in Threads : lockTest.thread[t].pc = "joined"
    /\ lockTest.n = nThreadsNum * nIterations
    /\ Len(lockTest.rounds) = nThreadsNum * nIterations
    /\ \E j \in 1..(Len(lockTest.rounds) - 2) :
          /\ lockTest.rounds[j] # lockTest.rounds[j + 1]
          /\ lockTest.rounds[j + 1] # lockTest.rounds[j + 2]

\* ---------------------------------------------------------------------
\* Script-type gating: IsAllowedInputType and IsAllowedOutputType under the
\* consensus parameters of the selected chain.

\* the heights from which the script types qualify on the main chain
PUBKEYHASH_BLOCK == 0
SCRIPTHASH_BLOCK == 2
MULTISIG_BLOCK == 0
NULLDATA_BLOCK == 3
MaxScriptBlock == 4

Networks == {"main", "test", "regtest"}
TxoutType == {"NONSTANDARD", "PUBKEY", "PUBKEYHASH", "SCRIPTHASH", "MULTISIG", "NULL_DATA"}
ScriptHeights == 0..MaxScriptBlock \cup {INT_MAX}

\* ConsensusParams(): the gates of the main chain, none on the other chains
ConsensusParams(network) ==
    IF network = "main"
    THEN [PUBKEYHASH_BLOCK |-> PUBKEYHASH_BLOCK, SCRIPTHASH_BLOCK |-> SCRIPTHASH_BLOCK,
          MULTISIG_BLOCK |-> MULTISIG_BLOCK, NULLDATA_BLOCK |-> NULLDATA_BLOCK]
    ELSE [PUBKEYHASH_BLOCK |-> 0, SCRIPTHASH_BLOCK |-> 0,
          MULTISIG_BLOCK |-> 0, NULLDATA_BLOCK |-> 0]

\* variant: a script type qualifies only after the block of its gate
Qualifies_After(gate, nBlock) == nBlock > gate

\* a script type qualifies from the block of its gate on
Qualifies(gate, nBlock) == nBlock >= gate

\* IsAllowedInputType: pay-to-pubkey-hash and pay-to-script-hash inputs
IsAllowedInputType(network, whichType, nBlock) ==
    \/ whichType = "PUBKEYHASH"
          /\ Qualifies(ConsensusParams(network).PUBKEYHASH_BLOCK, nBlock)
    \/ whichType = "SCRIPTHASH"
          /\ Qualifies(ConsensusParams(network).SCRIPTHASH_BLOCK, nBlock)

\* IsAllowedOutputType: pay-to-pubkey-hash, pay-to-script-hash, multisig and
\* null-data outputs
IsAllowedOutputType(network, whichType, nBlock) ==
    \/ whichType = "PUBKEYHASH"
          /\ Qualifies(ConsensusParams(network).PUBKEYHASH_BLOCK, nBlock)
    \/ whichType = "SCRIPTHASH"
          /\ Qualifies(ConsensusParams(network).SCRIPTHASH_BLOCK, nBlock)
    \/ whichType = "MULTISIG"
          /\ Qualifies(ConsensusParams(network).MULTISIG_BLOCK, nBlock)
    \/ whichType = "NULL_DATA"
          /\ Qualifies(ConsensusParams(network).NULLDATA_BLOCK, nBlock)

InitScript ==
    /\ InitCore
    /\ InitStores
    /\ InitUnits

\* SelectParams
Script_SelectParams ==
    /\ \E network \in Networks : params' = network
    /\ UNCHANGED <<coreVars, storeVars, unitVars, threads>>

\* a call of IsAllowedInputType
Script_IsAllowedInputType ==
    /\ \E whichType \in TxoutType, nBlock \in ScriptHeights :
          last' = [op |-> "IsAllowedInputType", network |-> params, whichType |-> whichType,
                   nBlock |-> nBlock,
                   result |-> IsAllowedInputType(params, whichType, nBlock)]
    /\ UNCHANGED <<coreVars, overrideforcedshutdown, abortNode, nftdb, totalTokens, feedb,
                   feehistdb, nBlockNow, unitVars, sysVars>>

\* a call of IsAllowedOutputType
Script_IsAllowedOutputType ==
    /\ \E whichType \in TxoutType, nBlock \in ScriptHeights :
          last' = [op |-> "IsAllowedOutputType", network |-> params, whichType |-> whichType,
                   nBlock |-> nBlock,
                   result |-> IsAllowedOutputType(params, whichType, nBlock)]
    /\ UNCHANGED <<coreVars, overrideforcedshutdown, abortNode, nftdb, totalTokens, feedb,
                   feehistdb, nBlockNow, unitVars, sysVars>>

NextScript ==
    \/ Script_SelectParams \/ Script_IsAllowedInputType \/ Script_IsAllowedOutputType

SpecScript == InitScript /\ [][NextScript]_vars

\* C31: on the main chain a pay-to-script-hash input or output is accepted
\* exactly at the heights from SCRIPTHASH_BLOCK on and a null-data output
\* exactly at the heights from NULLDATA_BLOCK on; on the other chains both
\* are accepted at every height.  The answer of the last call agrees.
C31_ScriptGates ==
    /\ \A nBlock \in ScriptHeights :
          /\ IsAllowedInputType("main", "SCRIPTHASH", nBlock) = (nBlock >= SCRIPTHASH_BLOCK)
          /\ IsAllowedOutputType("main", "SCRIPTHASH", nBlock) = (nBlock >= SCRIPTHASH_BLOCK)
          /\ IsAllowedOutputType("main", "NULL_DATA", nBlock) = (nBlock >= NULLDATA_BLOCK)
          /\ \A network \in Networks \ {"main"} :
                /\ IsAllowedInputType(network, "SCRIPTHASH", nBlock)
                /\ IsAllowedOutputType(network, "SCRIPTHASH", nBlock)
                /\ IsAllowedOutputType(network, "NULL_DATA", nBlock)
    /\ (last.op \in {"IsAllowedInputType", "IsAllowedOutputType"}
           /\ last.whichType = "SCRIPTHASH")
          => last.result = (last.network # "main" \/ last.nBlock >= SCRIPTHASH_BLOCK)
    /\ (last.op = "IsAllowedOutputType" /\ last.whichType = "NULL_DATA")
          => last.result = (last.network # "main" \/ last.nBlock >= NULLDATA_BLOCK)

\* a null-data output has been accepted at NULLDATA_BLOCK on the main chain
C31_Witness ==
    /\ last.op = "IsAllowedOutputType"
    /\ last.network = "main"
    /\ last.whichType = "NULL_DATA"
    /\ last.nBlock = NULLDATA_BLOCK
    /\ last.result


\* C32: after an AddFee that leaves the fees of the property below its
\* distribution threshold, the cached amount read back is the amount cached
\* before plus the amount added
C32_CacheIsCumulative ==
    (/\ last.op = "AddFee"
     /\ abortNode = ""
     /\ last.read + last.amount < GetDistributionThreshold(feedb, FeeAddProperty))
        => GetCachedAmount(feedb, FeeAddProperty) = last.read + last.amount

\* ---------------------------------------------------------------------
\* The drop-above-block operations of the stores, run together: the trade
\* list with its block index (recordNewTrade, recordMatchedTrade,
\* deleteAboveBlock), the STO list, the property registry and the fee cache.
\* A transaction id is a sequence of bytes, of which the block index keeps
\* the first ones (chash).

MaxRBBlocks == 3
RBTxids == {<<1, 1>>, <<2, 1>>}
ChashLen == 1

\* std::copy(txid.begin(), txid.begin() + sizeof(txkey.chash), txkey.chash)
Chash(txid) == SubSeq(txid, 1, ChashLen)

\* CBlockTxKey of the trade list: the big-endian of ~block, chash
KeyTradeBlock(k) == <<PrefixBlockTx>> \o BigEndian32Inv(k.block) \o k.chash

\* CMPTradeList::recordNewTrade with the block index row
TradeList_recordNewTrade(d, txid, blockNum) ==
    [d EXCEPT !.tradeB = @ \cup {[block |-> blockNum, chash |-> Chash(txid)]},
              !.trade = @ \cup {[txid |-> txid, block |-> blockNum]}]

\* CMPTradeList::recordMatchedTrade with the block index row
TradeList_recordMatchedTrade(d, txid1, txid2, blockNum) ==
    [d EXCEPT !.tradeB = @ \cup {[block |-> blockNum, chash |-> Chash(txid1)]},
              !.match = @ \cup {[block |-> blockNum, txid1 |-> txid1, txid2 |-> txid2]}]

\* DeleteToBatch<T>: the rows of T whose key starts with the chash of the
\* index row and whose block is the block of the index row
DeleteToBatch(rows, txidOf(_), key) ==
    {r \in rows : StartsWith(txidOf(r), key.chash) /\ r.block = key.block}

\* the index rows CMPTradeList::deleteAboveBlock stands on: the iterator is
\* put on CBlockTxKey{block}, whose chash is zero, and moved backward with
\* --it, that is to higher blocks, as long as it is valid
TradeList_deleteAboveBlock_keys(d, blockNum) ==
    LET sought == KeyTradeBlock([block |-> blockNum, chash |-> [i \in 1..ChashLen |-> 0]])
        from == {k \in d.tradeB : KeyLessEq(sought, KeyTradeBlock(k))}
    IN IF from = {} THEN {}
       ELSE {k \in d.tradeB :
                \A k2 \in from : KeyLessEq(KeyTradeBlock(k), KeyTradeBlock(k2))}

\* CMPTradeList::deleteAboveBlock: each index row the iterator stands on is
\* deleted with the new-trade and matched-trade rows it leads to
TradeList_deleteAboveBlock(d, blockNum) ==
    LET keys == TradeList_deleteAboveBlock_keys(d, blockNum)
    IN [d EXCEPT !.tradeB = @ \ keys,
                 !.trade = @ \ UNION {DeleteToBatch(d.trade, LAMBDA r : r.txid, k) : k \in keys},
                 !.match = @ \ UNION {DeleteToBatch(d.match, LAMBDA r : r.txid1, k) : k \in keys}]

InitRB ==
    /\ InitCore
    /\ InitUnits
    /\ overrideforcedshutdown = FALSE
    /\ abortNode = ""
    /\ nftdb = EmptyStore
    /\ totalTokens = <<>>
    /\ feedb = EmptyStore
    /\ feehistdb = EmptyStore
    /\ nBlockNow = 1
    /\ last = NoOp

RBFrame == <<blocks, hostTip, shutdownRequested, vChain, disconnectInitiated, txsToDelete,
             inputsToRestore, pc, cur, sync, txIdx, proc, mem, persisted,
             overrideforcedshutdown, abortNode, nftdb, totalTokens, entry, testdb, it,
             lockTest, sysVars>>

\* a trade of the block is recorded
RB_recordNewTrade ==
    /\ \E txid \in RBTxids :
          /\ \A r \in db.trade : r.txid # txid
          /\ db' = TradeList_recordNewTrade(db, txid, nBlockNow)
    /\ last' = [op |-> "write"]
    /\ UNCHANGED <<RBFrame, feedb, feehistdb, nBlockNow, spinfo>>

\* a trade of the block is matched with an earlier one
RB_recordMatchedTrade ==
    /\ \E r1 \in db.trade, r2 \in db.trade :
          /\ r1.block = nBlockNow
          /\ r2.txid # r1.txid
          /\ \A m \in db.match : m.txid1 # r1.txid
          /\ db' = TradeList_recordMatchedTrade(db, r1.txid, r2.txid, nBlockNow)
    /\ last' = [op |-> "write"]
    /\ UNCHANGED <<RBFrame, feedb, feehistdb, nBlockNow, spinfo>>

\* a send-to-owners of the block reaches a receiver
RB_recordSTOReceive ==
    /\ db.sto = {}
    /\ db' = recordSTOReceive(db, Receiver, nBlockNow, nBlockNow)
    /\ last' = [op |-> "write"]
    /\ UNCHANGED <<RBFrame, feedb, feehistdb, nBlockNow, spinfo>>

\* a transaction of the block creates a property, whose tokens give the
\* fee cache its threshold
RB_putSP ==
    /\ spinfo.next_spid = FirstSPID
    /\ LET info == [creation_block |-> nBlockNow, update_block |-> nBlockNow,
                    txid |-> 1, data |-> "a"]
       IN spinfo' = [putSP_next(spinfo, OMNI_PROPERTY_MSC) EXCEPT
                        !.db = putSP(spinfo.db, FirstSPID, info, nBlockNow)]
    /\ feedb' = UpdateDistributionThresholds(feedb, FirstSPID, 2 * OMNI_FEE_THRESHOLD)
    /\ last' = [op |-> "write"]
    /\ UNCHANGED <<RBFrame, db, feehistdb, nBlockNow>>

\* a transaction of the block changes the property
RB_updateSP ==
    /\ spinfo.next_spid > FirstSPID
    /\ getSP(spinfo.db, FirstSPID).ok
    /\ getSP(spinfo.db, FirstSPID).info.update_block < nBlockNow
    /\ LET info == [getSP(spinfo.db, FirstSPID).info EXCEPT !.update_block = nBlockNow,
                                                            !.data = "b"]
       IN spinfo' = [spinfo EXCEPT !.db = updateSP(@, FirstSPID, info, nBlockNow)]
    /\ last' = [op |-> "write"]
    /\ UNCHANGED <<RBFrame, db, feedb, feehistdb, nBlockNow>>

\* a trade of the block pays a fee in the property
RB_AddFee ==
    /\ GetDistributionThreshold(feedb, FirstSPID) > 0
    /\ \E r \in {AddFee(feedb, feehistdb, persisted, abortNode, overrideforcedshutdown,
                        FirstSPID, nBlockNow, 1, 0, 2)} :
          /\ feedb' = r.cache
          /\ feehistdb' = r.hist
    /\ last' = [op |-> "write"]
    /\ UNCHANGED <<RBFrame, db, nBlockNow, spinfo>>

\* the block ends and the next one begins
RB_NextBlock ==
    /\ nBlockNow < MaxRBBlocks
    /\ nBlockNow' = nBlockNow + 1
    /\ last' = [op |-> "NextBlock"]
    /\ UNCHANGED <<RBFrame, db, feedb, feehistdb, spinfo>>

\* the stores are rolled back to the blocks below 'block', which is
\* processed next
RB_RollBack ==
    /\ \E block \in 1..nBlockNow :
          /\ db' = STOList_deleteAboveBlock(TradeList_deleteAboveBlock(db, block), block)
          /\ spinfo' = [spinfo EXCEPT !.db = deleteSPAboveBlock(@, spinfo.next_spid,
                                                                  spinfo.next_test_spid, block)]
          /\ feedb' = RollBackCache(feedb, spinfo.next_spid, block)
          /\ feehistdb' = RollBackHistory(feehistdb, block)
          /\ nBlockNow' = block
          /\ last' = [op |-> "RollBack", block |-> block, db |-> db, sp |-> spinfo.db.sp,
                      feedb |-> feedb]
    /\ UNCHANGED RBFrame

NextRB ==
    \/ RB_recordNewTrade \/ RB_recordMatchedTrade \/ RB_recordSTOReceive
    \/ RB_putSP \/ RB_updateSP \/ RB_AddFee \/ RB_NextBlock \/ RB_RollBack

SpecRB == InitRB /\ [][NextRB]_vars

\* C33: a rollback to 'block' deletes no row recorded at a height below
\* 'block': every such row of the trade list (index, new-trade and
\* matched-trade rows), of the STO list, of the property registry and of the
\* fee cache that was there before the rollback is there after it
C33_RollBackKeepsRowsBelow ==
    last.op = "RollBack" =>
        /\ \A r \in last.db.tradeB : r.block < last.block => r \in db.tradeB
        /\ \A r \in last.db.trade : r.block < last.block => r \in db.trade
        /\ \A r \in last.db.match : r.block < last.block => r \in db.match
        /\ \A r \in last.db.stoB : r.block < last.block => r \in db.stoB
        /\ \A r \in last.db.sto : r.block < last.block => r \in db.sto
        /\ \A r \in last.sp : r.block < last.block => r \in spinfo.db.sp
        /\ \A k \in KeysOf(last.feedb, PrefixCacheAmount) :
              ParseCacheAmountKey(k).block < last.block => k \in DOMAIN feedb

\* C34: after the rollback of the trade list for 'block' no new-trade row
\* and no matched-trade row of a block at or above 'block' is left
C34_TradeRollBackDeletesRowsAbove ==
    last.op = "RollBack" =>
        /\ \A r \in db.trade : r.block < last.block
        /\ \A r \in db.match : r.block < last.block

----------------------------------------------------------------------------
(* The transaction list with its sub-records: recordTX,
   recordSendAllSubRecord, recordPaymentTX, recordMetaDExCancelTX and
   isMPinBlockRange *)

MaxTxBlocks == 2
TxListTxids == 1..2
MaxSubRecords == 2

PrefixSendAllTx == 115   \* 's'
PrefixPaymentTx == 112   \* 'p'
PrefixDexCancelTx == 99  \* 'c'

\* CSendAllTxKey: txid, VARINT(num)
KeySendAllTx(k) == <<PrefixSendAllTx, k.txid>> \o Varint(k.num)

\* CPaymentTxKey: txid, ser_writedata32be(~payments), block, valid
KeyPaymentTx(k) == <<PrefixPaymentTx, k.txid>> \o BigEndian32Inv(k.payments)
                     \o LittleEndian32(k.block) \o <<IF k.valid THEN 1 ELSE 0>>

\* CDexCancelTxKey: txid, ser_writedata32be(~affected), block, valid
KeyDexCancelTx(k) == <<PrefixDexCancelTx, k.txid>> \o BigEndian32Inv(k.affected)
                       \o LittleEndian32(k.block) \o <<IF k.valid THEN 1 ELSE 0>>

\* uint256(): the null transaction id
NullTxid == 0

\* CMPTxList::recordSendAllSubRecord: the sub-record and the block index row
recordSendAllSubRecord(d, txid, nBlock, subRecordNumber) ==
    [d EXCEPT !.sendall = @ \cup {[txid |-> txid, num |-> subRecordNumber]},
              !.txB = @ \cup {[block |-> nBlock, txid |-> txid]}]

\* CMPTxList::recordPaymentTX: the number of the payment is one more than
\* that of the first row of the txid, which is the highest; the block index
\* row and the sub-record are written
recordPaymentTX(d, txid, fValid, nBlock) ==
    LET first == SeekFirst(d.payment, KeyPaymentTx, <<PrefixPaymentTx, txid>>)
        numberOfPayments == IF first = {} THEN 1
                            ELSE (CHOOSE r \in first : TRUE).payments + 1
    IN [d EXCEPT !.txB = @ \cup {[block |-> nBlock, txid |-> txid]},
                 !.payment = @ \cup {[txid |-> txid, payments |-> numberOfPayments,
                                      block |-> nBlock, valid |-> fValid,
                                      cancelTxId |-> NullTxid]}]

\* CMPTxList::recordMetaDExCancelTX: the block index row, the cancel id in
\* the first payment row of txidSub if there is one, and the sub-record
recordMetaDExCancelTX(d, txid, txidSub, fValid, nBlock) ==
    LET first == SeekFirst(d.cancel, KeyDexCancelTx, <<PrefixDexCancelTx, txid>>)
        numerOfAffected == IF first = {} THEN 1
                           ELSE (CHOOSE r \in first : TRUE).affected + 1
        pit == SeekFirst(d.payment, KeyPaymentTx, <<PrefixPaymentTx, txidSub>>)
    IN [d EXCEPT !.txB = @ \cup {[block |-> nBlock, txid |-> txid]},
                 !.payment = (@ \ pit) \cup {[r EXCEPT !.cancelTxId = txid] : r \in pit},
                 !.cancel = @ \cup {[txid |-> txid, affected |-> numerOfAffected,
                                     block |-> nBlock, valid |-> fValid]}]

\* the index rows isMPinBlockRange stands on: from the first row at or
\* after CBlockTxKey{ending_block}, whose txid is null, in key order up to
\* the first row of a block below starting_block
isMPinBlockRange_keys(d, starting_block, ending_block) ==
    LET sought == KeyBlockTx([block |-> ending_block, txid |-> NullTxid])
        from == {k \in d.txB : KeyLessEq(sought, KeyBlockTx(k))}
    IN {k \in from : \A k2 \in from :
            KeyLessEq(KeyBlockTx(k2), KeyBlockTx(k)) => ~(k2.block < starting_block)}

\* the four DeleteToBatch<T> of one index row, joined by ||: the rows of
\* the first table that has a row of the txid are put in the batch, and the
\* tables after it are not looked at
isMPinBlockRange_batch(d, key) ==
    LET main == {r \in d.tx : StartsWith(KeyTx(r), PartialKeyTx(key.txid))}
        sendall == {r \in d.sendall :
                       StartsWith(KeySendAllTx(r), <<PrefixSendAllTx, key.txid>>)}
        payment == {r \in d.payment :
                       StartsWith(KeyPaymentTx(r), <<PrefixPaymentTx, key.txid>>)}
        cancel == {r \in d.cancel :
                      StartsWith(KeyDexCancelTx(r), <<PrefixDexCancelTx, key.txid>>)}
    IN IF main # {} THEN [tx |-> main, sendall |-> {}, payment |-> {}, cancel |-> {}]
       ELSE IF sendall # {}
            THEN [tx |-> {}, sendall |-> sendall, payment |-> {}, cancel |-> {}]
       ELSE IF payment # {}
            THEN [tx |-> {}, sendall |-> {}, payment |-> payment, cancel |-> {}]
       ELSE [tx |-> {}, sendall |-> {}, payment |-> {}, cancel |-> cancel]

\* CMPTxList::isMPinBlockRange: the number of index rows in the range; with
\* bDeleteFound the batches of the rows are deleted, and a payment row that
\* stays loses the id of a cancel whose sub-records were deleted
isMPinBlockRange(d, starting_block, ending_block, bDeleteFound) ==
    LET keys == isMPinBlockRange_keys(d, starting_block, ending_block)
        n_found == Cardinality(keys)
        del(f) == UNION {isMPinBlockRange_batch(d, k)[f] : k \in keys}
        paymentTxs == {r.txid : r \in del("payment")}
        cancelTxs == {r.txid : r \in del("cancel")}
        kept == d.payment \ del("payment")
        \* one payment row per deleted cancel, the first in key order
        reset == {r \in d.payment :
                     /\ r.cancelTxId \in cancelTxs
                     /\ r.txid \notin paymentTxs
                     /\ \A r2 \in d.payment :
                           (r2.cancelTxId = r.cancelTxId /\ r2 # r)
                               => KeyLess(KeyPaymentTx(r), KeyPaymentTx(r2))}
    IN IF bDeleteFound /\ n_found > 0
       THEN [n_found |-> n_found,
             d |-> [d EXCEPT !.tx = @ \ del("tx"),
                             !.sendall = @ \ del("sendall"),
                             !.cancel = @ \ del("cancel"),
                             !.payment = (kept \ reset)
                                 \cup {[r EXCEPT !.cancelTxId = NullTxid] : r \in reset}]]
       ELSE [n_found |-> n_found, d |-> d]

InitTx == InitRB

TxFrame == <<RBFrame, feedb, feehistdb, spinfo>>

\* the block a txid is recorded in, if any, is the current one
FreshOrCurrent(txid) == \A k \in db.txB : k.txid = txid => k.block = nBlockNow

\* a transaction of the block is recorded: a simple send, a send-all or a
\* cancel of trades
Tx_recordTX ==
    /\ \E txid \in TxListTxids, fValid \in BOOLEAN,
          type \in {MSC_TYPE_SIMPLE_SEND, MSC_TYPE_SEND_ALL, MSC_TYPE_METADEX_CANCEL_PRICE} :
          /\ FreshOrCurrent(txid)
          /\ \A r \in db.tx \cup db.payment : r.txid # txid
          /\ (\E r \in db.sendall : r.txid = txid) => type = MSC_TYPE_SEND_ALL
          /\ (\E r \in db.cancel : r.txid = txid) => type = MSC_TYPE_METADEX_CANCEL_PRICE
          /\ db' = recordTX(db, txid, fValid, nBlockNow, type)
    /\ last' = [op |-> "write"]
    /\ UNCHANGED <<TxFrame, nBlockNow>>

\* a send-all of the block moves the tokens of one more property
Tx_recordSendAllSubRecord ==
    /\ \E txid \in TxListTxids :
          /\ FreshOrCurrent(txid)
          /\ \A r \in db.tx : r.txid = txid => r.type = MSC_TYPE_SEND_ALL
          /\ \A r \in db.payment \cup db.cancel : r.txid # txid
          /\ LET num == Cardinality({r \in db.sendall : r.txid = txid}) + 1
             IN /\ num <= MaxSubRecords
                /\ db' = recordSendAllSubRecord(db, txid, nBlockNow, num)
    /\ last' = [op |-> "write"]
    /\ UNCHANGED <<TxFrame, nBlockNow>>

\* a transaction of the block, which has no payload, pays for an accepted
\* offer
Tx_recordPaymentTX ==
    /\ \E txid \in TxListTxids :
          /\ FreshOrCurrent(txid)
          /\ \A r \in db.tx \cup db.sendall \cup db.cancel : r.txid # txid
          /\ Cardinality({r \in db.payment : r.txid = txid}) < MaxSubRecords
          /\ db' = recordPaymentTX(db, txid, TRUE, nBlockNow)
    /\ last' = [op |-> "write"]
    /\ UNCHANGED <<TxFrame, nBlockNow>>

\* a cancel of the block removes one more trade
Tx_recordMetaDExCancelTX ==
    /\ \E txid \in TxListTxids, txidSub \in TxListTxids :
          /\ txidSub # txid
          /\ FreshOrCurrent(txid)
          /\ \A r \in db.tx : r.txid = txid => r.type = MSC_TYPE_METADEX_CANCEL_PRICE
          /\ \A r \in db.payment \cup db.sendall : r.txid # txid
          /\ Cardinality({r \in db.cancel : r.txid = txid}) < MaxSubRecords
          /\ db' = recordMetaDExCancelTX(db, txid, txidSub, TRUE, nBlockNow)
    /\ last' = [op |-> "write"]
    /\ UNCHANGED <<TxFrame, nBlockNow>>

\* the block ends and the next one begins
Tx_NextBlock ==
    /\ nBlockNow < MaxTxBlocks
    /\ nBlockNow' = nBlockNow + 1
    /\ last' = [op |-> "NextBlock"]
    /\ UNCHANGED <<TxFrame, db>>

\* the range of blocks is looked for transactions, which are deleted if
\* asked for
Tx_isMPinBlockRange ==
    /\ \E starting_block \in 1..nBlockNow, bDeleteFound \in BOOLEAN :
       \E ending_block \in starting_block..nBlockNow :
       \E r \in {isMPinBlockRange(db, starting_block, ending_block, bDeleteFound)} :
          /\ db' = r.d
          /\ last' = [op |-> "isMPinBlockRange", starting_block |-> starting_block,
                      ending_block |-> ending_block, bDeleteFound |-> bDeleteFound,
                      db |-> db, n_found |-> r.n_found]
    /\ UNCHANGED <<TxFrame, nBlockNow>>

NextTx ==
    \/ Tx_recordTX \/ Tx_recordSendAllSubRecord \/ Tx_recordPaymentTX
    \/ Tx_recordMetaDExCancelTX \/ Tx_NextBlock \/ Tx_isMPinBlockRange

SpecTx == InitTx /\ [][NextTx]_vars

\* C35: after isMPinBlockRange(start, end, true) no main record, send-all
\* sub-record, payment sub-record or DEx-cancel sub-record is left for a
\* transaction that was recorded in a block from start to end
C35_RangeDeleteErasesEveryRecord ==
    (last.op = "isMPinBlockRange" /\ last.bDeleteFound) =>
        \A k \in last.db.txB :
            (last.starting_block <= k.block /\ k.block <= last.ending_block) =>
                \A r \in db.tx \cup db.sendall \cup db.payment \cup db.cancel :
                    r.txid # k.txid

----------------------------------------------------------------------------
(* The owners of the tokens before and after a move *)

\* the token ids of the moves: from below the first range to above the last
MoveTokenIds == 0..151

\* C36: after a successful move of start..end from 'from' to 'to', every
\* token of start..end is owned by 'to', and every other token, of the
\* property or of another one, has the owner it had before the move
C36_MoveChangesOwnerOfRangeOnly ==
    (last.op = "move" /\ last.ok) =>
        \A p \in MoveProperties, tokenId \in MoveTokenIds :
            GetNonFungibleTokenValue(nftdb, p, tokenId, "RangeIndex") =
                IF p = last.propertyId /\ last.start <= tokenId /\ tokenId <= last.end
                THEN last.to
                ELSE GetNonFungibleTokenValue(last.before, p, tokenId, "RangeIndex")

\* a move from an address to itself has succeeded, of tokens that the
\* sender's range held with tokens before and after them
C36_Witness ==
    /\ last.op = "move"
    /\ last.ok
    /\ last.from = last.to
    /\ LET senderTokenRange == GetRange(last.before, last.propertyId, last.start, "RangeIndex")
       IN /\ senderTokenRange[1] < last.start
          /\ last.end < senderTokenRange[2]
    /\ GetNonFungibleTokenValue(nftdb, last.propertyId, last.start, "RangeIndex") = last.to

----------------------------------------------------------------------------
(* Creation of tokens with any amount that is not negative *)

\* a call of CreateNonFungibleTokens with an amount from 0 on, on the store
\* as earlier calls have left it; 'last' keeps the call and its result
NFT_CreateAny ==
    /\ Cardinality(NFTRows(nftdb, 1, "GrantData")) < MaxGrants
    /\ \E amount \in 0..Int64Max, owner \in Addrs, wrapped \in Int64Range :
          \E r \in {CreateNonFungibleTokens(nftdb, 1, amount, owner, "g", wrapped)} :
             /\ nftdb' = r.store
             /\ last' = [op |-> "create", before |-> nftdb, amount |-> amount,
                         start |-> r.range[1], end |-> r.range[2]]
    /\ UNCHANGED <<coreVars, unitVars, overrideforcedshutdown, abortNode, totalTokens, feedb,
                   feehistdb, nBlockNow, sysVars>>

SpecCreateAny == InitNFT /\ [][NFT_CreateAny]_vars

\* C37: every range in the store, of the range index and of the grant
\* data, starts at 1 or above and ends at its start or above
C37_StoredRangesWellFormed ==
    \A type \in {"RangeIndex", "GrantData"} :
        \A r \in NFTRows(nftdb, 1, type) : 1 <= r.start /\ r.start <= r.end

----------------------------------------------------------------------------
(* The state of the reorganisation controller after a rewind *)

\* the callback thread is past the rewind of the connecting block: in the
\* replay of SyncToTip, or at or after the BeginProcessTx that follows it
PastRewind == pc \in {"sync_loop", "sync_tx", "begin2", "tx"}

\* C38: when the rewind has finished, through the replay and the
\* processing of the connecting block, no disconnect is pending and the
\* remembered transaction ids and inputs are empty; and whenever no
\* disconnect is pending, as at the next BlockConnected, they are empty
C38_RewindLeavesNothingPending ==
    /\ PastRewind => /\ ~disconnectInitiated
                     /\ txsToDelete = {}
                     /\ inputsToRestore = {}
    /\ ~disconnectInitiated => txsToDelete = {} /\ inputsToRestore = {}

\* a rewind that restored a checkpoint has replayed a block and the
\* connecting block is being processed
C38_Witness ==
    /\ pc = "tx"
    /\ sync # NoSync
    /\ sync.loaded >= 0
    /\ sync.nBlock > sync.loaded + 1
    /\ ~disconnectInitiated

\* a rewind that rescans from the first block is replaying
C38_WitnessRescan ==
    /\ pc = "sync_tx"
    /\ sync.loaded = -1
    /\ ~disconnectInitiated

----------------------------------------------------------------------------
(* The chain index after SetTip *)

\* the chain index is the chain of p: its height is the height of p and
\* its entry at each height is the ancestor of p at that height
IsChainOf(chain, p) ==
    /\ Height(chain) = nHeight(p)
    /\ \A i \in 0..nHeight(p) : At(chain, i) = Ancestor(p, i)

\* C39: after SetTip(p), called by UpdatedBlockTip for the host's tip, by
\* BeginProcessTx before a rewind for the parent of the connecting block and
\* by BlockConnected for the connecting block, the chain index has the
\* height of p and holds at every height the ancestor of p at that height
C39_SetTipGivesChainOfTip ==
    [][/\ UpdatedBlockTip => IsChainOf(vChain', hostTip)
       /\ BeginProcessTx_Rewind => IsChainOf(vChain', pprev(cur))
       /\ BeginProcessTx => IsChainOf(vChain', cur)]_vars

\* the chain index has been set to a connecting block after a rewind, and
\* the host's index holds a higher block of another branch
C39_Witness ==
    /\ pc = "tx"
    /\ sync # NoSync
    /\ Tip(vChain) = cur
    /\ \E b \in 1..Len(blocks) : ~IsAncestor(b, cur) /\ nHeight(b) > nHeight(cur)

----------------------------------------------------------------------------
(* The locks of the node: cs_tally, cs_chain of the chain index and
   cs_mempool, each a RecursiveMutex, as the threads take them.  What a
   function does with the locks is the sequence of its LOCK statements and
   of the ends of their scopes, in the order of the code. *)

Locks == {"cs_tally", "cs_chain", "cs_mempool"}
NodeThreads == {"connect", "disconnect", "mempool", "reader"}

\* LOCK(cs) at the start of a scope, the body, the end of the scope
Locked(cs, body) == <<<<"LOCK", cs>>>> \o body \o <<<<"unlock", cs>>>>

\* CChainIndex::Height
Height_LOCK == Locked("cs_chain", <<>>)

\* CChainIndex::operator[], which calls Height
At_LOCK == Locked("cs_chain", Height_LOCK)

\* CChainIndex::Contains, which calls operator[]
Contains_LOCK == Locked("cs_chain", At_LOCK)

\* CChainIndex::Tip
Tip_LOCK == Locked("cs_chain", <<>>)

\* CChainIndex::SetTip, which calls Contains in its loop
SetTip_LOCK == Locked("cs_chain", Contains_LOCK)

\* COmniFeeCache::DistributeCache
DistributeCache_LOCK == Locked("cs_tally", <<>>)

\* RemoveSpentIndexFromMempool, RemoveAddressIndexFromMempool,
\* AddSpentIndexToMempool and AddAddressIndexToMempool
IndexMempool_LOCK == Locked("cs_mempool", <<>>)

\* variant: the tally is read while the mempool lock is held
AddTransactionToMempool_LOCK_Tally ==
    Locked("cs_mempool", Locked("cs_tally", <<>>))

\* AddTransactionToMempool, with the address index
AddTransactionToMempool_LOCK ==
    Locked("cs_mempool", IndexMempool_LOCK \o IndexMempool_LOCK)

\* RemoveTransactionFromMempool, with the address index
RemoveTransactionFromMempool_LOCK ==
    Locked("cs_mempool", IndexMempool_LOCK \o IndexMempool_LOCK)

\* COmniValidationInterface::BlockConnected: under cs_tally, BeginProcessTx
\* with its SetTip, SetTip, a transaction that distributes the fee cache,
\* and RemoveTransactionFromMempool for a transaction of the block
BlockConnected_LOCK ==
    Locked("cs_tally", SetTip_LOCK \o SetTip_LOCK \o DistributeCache_LOCK
                           \o RemoveTransactionFromMempool_LOCK)

\* COmniValidationInterface::BlockDisconnected
BlockDisconnected_LOCK == Locked("cs_tally", <<>>)

\* COmniValidationInterface::UpdatedBlockTip
UpdatedBlockTip_LOCK == SetTip_LOCK

\* BalancesDialog::UpdatePropSelector
UpdatePropSelector_LOCK == Locked("cs_tally", <<>>)

\* COmniValidationInterface::LastBlockHeight
LastBlockHeight_LOCK == Tip_LOCK

\* GetMempoolTransaction
GetMempoolTransaction_LOCK == Locked("cs_mempool", <<>>)

\* the functions a thread calls
Calls(t) ==
    CASE t = "connect" -> {BlockConnected_LOCK, UpdatedBlockTip_LOCK}
      [] t = "disconnect" -> {BlockDisconnected_LOCK}
      [] t = "mempool" -> {AddTransactionToMempool_LOCK, RemoveTransactionFromMempool_LOCK}
      [] t = "reader" -> {UpdatePropSelector_LOCK, LastBlockHeight_LOCK,
                          GetMempoolTransaction_LOCK}

\* the threads started: every lock free, every thread between two calls
Started ==
    [cs |-> [l \in Locks |-> [owner |-> "", depth |-> 0]],
     thread |-> [t \in NodeThreads |-> [code |-> <<>>, pc |-> 0]]]

ThreadsFrame == <<coreVars, storeVars, unitVars, params>>

\* the node starts its threads
Node_Start ==
    /\ threads = NoThreads
    /\ threads' = Started
    /\ UNCHANGED ThreadsFrame

\* what thread t does next, <<>> between two calls and at a return
Step(t) ==
    IF threads = NoThreads THEN <<>>
    ELSE LET th == threads.thread[t]
         IN IF th.pc >= 1 /\ th.pc <= Len(th.code) THEN th.code[th.pc] ELSE <<>>

\* a thread calls one of its functions
Thread_Call(t) ==
    /\ threads # NoThreads
    /\ threads.thread[t].pc = 0
    /\ \E code \in Calls(t) :
          threads' = [threads EXCEPT !.thread[t] = [code |-> code, pc |-> 1]]
    /\ UNCHANGED ThreadsFrame

\* LOCK(cs): the thread goes on when the lock is free or its own
Thread_LOCK(t) ==
    /\ Step(t) # <<>>
    /\ Step(t)[1] = "LOCK"
    /\ LET l == Step(t)[2]
       IN /\ threads.cs[l].owner \in {"", t}
          /\ threads' = [threads EXCEPT !.cs[l] = [owner |-> t, depth |-> @.depth + 1],
                                        !.thread[t].pc = @ + 1]
    /\ UNCHANGED ThreadsFrame

\* the end of the scope of a LOCK
Thread_Unlock(t) ==
    /\ Step(t) # <<>>
    /\ Step(t)[1] = "unlock"
    /\ LET l == Step(t)[2]
       IN threads' = [threads EXCEPT
                         !.cs[l] = [owner |-> IF @.depth = 1 THEN "" ELSE t,
                                    depth |-> @.depth - 1],
                         !.thread[t].pc = @ + 1]
    /\ UNCHANGED ThreadsFrame

\* the function returns
Thread_Return(t) ==
    /\ threads # NoThreads
    /\ threads.thread[t].pc > Len(threads.thread[t].code)
    /\ threads' = [threads EXCEPT !.thread[t] = [code |-> <<>>, pc |-> 0]]
    /\ UNCHANGED ThreadsFrame

NextThreads ==
    \/ Node_Start
    \/ \E t \in NodeThreads : Thread_Call(t)
    \/ \E t \in NodeThreads : Thread_LOCK(t)
    \/ \E t \in NodeThreads : Thread_Unlock(t)
    \/ \E t \in NodeThreads : Thread_Return(t)

SpecThreads == Init /\ [][NextThreads]_vars

\* the lock thread t is at, "" if it is not at a LOCK
Wants(t) == IF Step(t) # <<>> /\ Step(t)[1] = "LOCK" THEN Step(t)[2] ELSE ""

\* thread t is at a LOCK of a lock that another thread holds
Waits(t) == Wants(t) # "" /\ threads.cs[Wants(t)].owner \notin {"", t}

\* C40: the threads never reach a state in which each thread of some set
\* waits for a lock that a thread of the set holds
C40_NoDeadlock ==
    threads # NoThreads =>
        ~\E S \in SUBSET NodeThreads \ {{}} :
            \A t \in S : Waits(t) /\ threads.cs[Wants(t)].owner \in S

\* the block-connect thread holds cs_tally and cs_mempool while the
\* mempool thread waits for cs_mempool and two threads wait for cs_tally
C40_Witness ==
    /\ threads # NoThreads
    /\ threads.cs["cs_tally"].owner = "connect"
    /\ threads.cs["cs_mempool"].owner = "connect"
    /\ Waits("mempool")
    /\ Waits("reader") /\ Wants("reader") = "cs_tally"
    /\ Waits("disconnect")

====
